---- MODULE Spec2Model ----
(***************************************************************************)
(* A model of the IRMS risk engine (src/modules/risk_assessor.py), of the  *)
(* collaborators that feed it (src/modules/ai_engine.py,                   *)
(* src/modules/change_detector.py) and of the pipeline that drives them    *)
(* (src/main.py).                                                          *)
(*                                                                         *)
(* Numbers.  The engine computes in Python floats (IEEE-754 binary64).     *)
(* Gate thresholds are compared against the unrounded float total, so the  *)
(* model keeps the floats: a float is a record [m, e] standing for         *)
(* m * 2^e, with m = 0 or 2^52 <= m < 2^53, m held as eight base-2^14      *)
(* limbs, least significant first (TLC integers are 32 bits wide).  Every  *)
(* operation rounds to nearest, ties to even, as the hardware does.  All   *)
(* values of the engine are non-negative.                                  *)
(*                                                                         *)
(* Values rounded by round(x, 2) are kept as the integer number of         *)
(* hundredths (24.0 is 2400): round() yields the float nearest to that     *)
(* decimal, and FloatOfHundredths gives that float back.                   *)
(***************************************************************************)
EXTENDS Integers, Sequences, FiniteSets, TLC

(***************************************************************************)
(* Naturals below 2^112 as tuples of eight limbs, least significant first. *)
(***************************************************************************)
LimbBits == 14
LimbBase == 2^LimbBits
Limbs == 1..8

WZero == <<0, 0, 0, 0, 0, 0, 0, 0>>
WOne == <<1, 0, 0, 0, 0, 0, 0, 0>>

Limb(a, i) == IF i \in Limbs THEN a[i] ELSE 0

\* Carries propagated through eight column sums
NormCols(c) ==
    LET t1 == c[1]
        t2 == c[2] + (t1 \div LimbBase)
        t3 == c[3] + (t2 \div LimbBase)
        t4 == c[4] + (t3 \div LimbBase)
        t5 == c[5] + (t4 \div LimbBase)
        t6 == c[6] + (t5 \div LimbBase)
        t7 == c[7] + (t6 \div LimbBase)
        t8 == c[8] + (t7 \div LimbBase)
    IN  <<t1 % LimbBase, t2 % LimbBase, t3 % LimbBase, t4 % LimbBase,
          t5 % LimbBase, t6 % LimbBase, t7 % LimbBase, t8 % LimbBase>>

\* n < 2^31
WFromInt(n) ==
    <<n % LimbBase, (n \div LimbBase) % LimbBase, n \div (LimbBase * LimbBase),
      0, 0, 0, 0, 0>>

\* a < 2^31
WToInt(a) == a[1] + (LimbBase * a[2]) + (LimbBase * LimbBase * a[3])

WAdd(a, b) == NormCols([i \in Limbs |-> a[i] + b[i]])

\* a * k for 0 <= k < 2^16
WMulSmall(a, k) == NormCols([i \in Limbs |-> a[i] * k])

\* a * b for a, b < 2^56
WMul(a, b) ==
    LET P(i, j) == IF j \in 1..4 THEN a[i] * b[j] ELSE 0
    IN  NormCols([k \in Limbs |-> P(1, k) + P(2, k - 1) + P(3, k - 2) + P(4, k - 3)])

\* <<quotient, remainder>> of a by k, 0 < k <= 2^14, from the top limb down
WDivSmall(a, k) ==
    LET c8 == a[8]
        c7 == ((c8 % k) * LimbBase) + a[7]
        c6 == ((c7 % k) * LimbBase) + a[6]
        c5 == ((c6 % k) * LimbBase) + a[5]
        c4 == ((c5 % k) * LimbBase) + a[4]
        c3 == ((c4 % k) * LimbBase) + a[3]
        c2 == ((c3 % k) * LimbBase) + a[2]
        c1 == ((c2 % k) * LimbBase) + a[1]
    IN  << <<c1 \div k, c2 \div k, c3 \div k, c4 \div k,
             c5 \div k, c6 \div k, c7 \div k, c8 \div k>>, c1 % k >>

IntBitLen(n) == Cardinality({k \in 0..(LimbBits - 1) : 2^k <= n})

\* The index of the top non-zero limb, 0 for zero
WTop(a) ==
    IF a[8] # 0 THEN 8 ELSE IF a[7] # 0 THEN 7 ELSE IF a[6] # 0 THEN 6
    ELSE IF a[5] # 0 THEN 5 ELSE IF a[4] # 0 THEN 4 ELSE IF a[3] # 0 THEN 3
    ELSE IF a[2] # 0 THEN 2 ELSE IF a[1] # 0 THEN 1 ELSE 0

WBitLen(a) ==
    LET top == WTop(a)
    IN  IF top = 0 THEN 0 ELSE ((top - 1) * LimbBits) + IntBitLen(a[top])

\* a * 2^s (the result below 2^112)
WShl(a, s) ==
    LET j == s \div LimbBits
        r == s % LimbBits
        F(i) == ((Limb(a, i - j) % (2^(LimbBits - r))) * (2^r))
                + (Limb(a, i - j - 1) \div (2^(LimbBits - r)))
    IN  <<F(1), F(2), F(3), F(4), F(5), F(6), F(7), F(8)>>

\* a \div 2^s
WShr(a, s) ==
    LET j == s \div LimbBits
        r == s % LimbBits
        F(i) == (Limb(a, i + j) \div (2^r))
                + ((Limb(a, i + j + 1) % (2^r)) * (2^(LimbBits - r)))
    IN  <<F(1), F(2), F(3), F(4), F(5), F(6), F(7), F(8)>>

WIsOdd(a) == a[1] % 2 = 1

\* -1, 0, 1 as a < b, a = b, a > b
WCmp(a, b) ==
    LET d == WTop(<<IF a[1] = b[1] THEN 0 ELSE 1, IF a[2] = b[2] THEN 0 ELSE 1,
                    IF a[3] = b[3] THEN 0 ELSE 1, IF a[4] = b[4] THEN 0 ELSE 1,
                    IF a[5] = b[5] THEN 0 ELSE 1, IF a[6] = b[6] THEN 0 ELSE 1,
                    IF a[7] = b[7] THEN 0 ELSE 1, IF a[8] = b[8] THEN 0 ELSE 1>>)
    IN  IF d = 0 THEN 0 ELSE IF a[d] < b[d] THEN -1 ELSE 1

(***************************************************************************)
(* Python floats.                                                          *)
(***************************************************************************)
MantissaBits == 53

FZero == [m |-> WZero, e |-> 0]

\* A mantissa that rounding up carried to 2^53 loses its last (zero) bit
FRenorm(q2, e) ==
    IF WBitLen(q2) > MantissaBits
    THEN [m |-> WShr(q2, 1), e |-> e + 1]
    ELSE [m |-> q2, e |-> e]

\* q * 2^e rounded up by one unit on a set round bit, unless it is a tie and
\* q is even
FRoundUp(q, e, roundbit, sticky) ==
    FRenorm(IF roundbit /\ (sticky \/ WIsOdd(q)) THEN WAdd(q, WOne) ELSE q, e)

\* n has s bits too many; t is n without its last s - 1 bits
FRoundCut(n, e, s, t) ==
    FRoundUp(WShr(t, 1), e + s, WIsOdd(t), WShl(t, s - 1) # n)

\* n has len bits
FRoundLen(n, e, len) ==
    IF len = 0 THEN FZero
    ELSE IF len <= MantissaBits
    THEN [m |-> WShl(n, MantissaBits - len), e |-> e - (MantissaBits - len)]
    ELSE FRoundCut(n, e, len - MantissaBits, WShr(n, len - MantissaBits - 1))

\* The float nearest to n * 2^e (n below 2^112), ties to even.
FRound(n, e) == FRoundLen(n, e, WBitLen(n))

\* n < 2^31
FFromInt(n) == FRound(WFromInt(n), 0)

\* a / k for an integer 0 < k <= 2^14 (float / int, and int / int)
FDivSmall(a, k) ==
    IF a.m = WZero THEN FZero
    ELSE LET d  == WDivSmall(WShl(a.m, 16), k)
             n2 == WAdd(WMulSmall(d[1], 2), IF d[2] > 0 THEN WOne ELSE WZero)
         IN  FRound(n2, a.e - 17)

\* The float a decimal literal or an int / int division denotes.
FFromRatio(n, d) == FDivSmall(FFromInt(n), d)

FAdd(a, b) ==
    IF a.m = WZero THEN b
    ELSE IF b.m = WZero THEN a
    ELSE LET hi == IF a.e >= b.e THEN a ELSE b
             lo == IF a.e >= b.e THEN b ELSE a
             d  == hi.e - lo.e
         IN  IF d > MantissaBits + 2 THEN hi
             ELSE FRound(WAdd(WShl(hi.m, d), lo.m), lo.e)

FMul(a, b) ==
    IF a.m = WZero \/ b.m = WZero THEN FZero
    ELSE FRound(WMul(a.m, b.m), a.e + b.e)

\* -1, 0, 1 as a < b, a = b, a > b
FCmp(a, b) ==
    IF a.m = WZero THEN (IF b.m = WZero THEN 0 ELSE -1)
    ELSE IF b.m = WZero THEN 1
    ELSE IF a.e < b.e THEN -1
    ELSE IF a.e > b.e THEN 1
    ELSE WCmp(a.m, b.m)

FLess(a, b) == FCmp(a, b) < 0
FLeq(a, b) == FCmp(a, b) <= 0

\* Python's min(a, b): the first of the two unless the second is smaller
FMin(a, b) == IF FLess(b, a) THEN b ELSE a

\* round(x, 2) for x < 2^17, as the number of hundredths: the exact value of
\* x times 100, rounded to the nearest integer, ties to even
Round2(v) ==
    IF v.m = WZero THEN 0
    ELSE LET n        == WMulSmall(v.m, 100)
             s        == 0 - v.e
             t        == WShr(n, s - 1)
             q        == WToInt(WShr(t, 1))
             roundbit == WIsOdd(t)
             sticky   == WShl(t, s - 1) # n
         IN  IF roundbit /\ (sticky \/ q % 2 = 1) THEN q + 1 ELSE q

\* The float that round(x, 2) returns for h hundredths
FloatOfHundredths(h) == FFromRatio(h, 100)

FOne == FFromInt(1)

\* 100, the factor of the percentage scale
FHundred == FFromInt(100)

(***************************************************************************)
(* The state.                                                              *)
(*                                                                         *)
(* RISK_WEIGHTS, RISK_GATES  the module globals of config/settings.py      *)
(* assessments    RiskAssessor.assessments, a dict: the sequence of its    *)
(*                [key, value] items in insertion order                    *)
(* call           the operation that ran last, with its arguments          *)
(* result         its outcome: [exc, val], exc "None" when it returned     *)
(* frame          the locals of the assess_risk call that ran last         *)
(* returned       history: for each filename, the last call of assess_risk *)
(*                that returned, what it returned, and whether the call    *)
(*                was a repetition                                         *)
(* ai_engine      the fields of the AIEngine object                        *)
(* batch          the locals of process_batch, and its position            *)
(* threads        the threads of a run: the position and locals of each    *)
(***************************************************************************)
VARIABLES RISK_WEIGHTS, RISK_GATES, assessments, call, result, frame,
          returned, ai_engine, batch, threads

vars == <<RISK_WEIGHTS, RISK_GATES, assessments, call, result, frame,
          returned, ai_engine, batch, threads>>

(***************************************************************************)
(* Python values.  None and the empty dict are the empty function <<>>; a  *)
(* dict with string keys is a function on its keys.                        *)
(***************************************************************************)
None == <<>>

\* dict.get(k, default)
Get(d, k, default) == IF k \in DOMAIN d THEN d[k] ELSE default

\* The outcome of a call: a returned value, or a raised exception
Return(v) == [exc |-> "None", val |-> v]
Raise(e) == [exc |-> e, val |-> None]

Range(s) == {s[i] : i \in DOMAIN s}

\* An insertion-ordered dict as the sequence of its items
DictKeys(d) == {d[i].key : i \in DOMAIN d}
DictValues(d) == [i \in DOMAIN d |-> d[i].value]
DictGet(d, k) == (CHOOSE it \in Range(d) : it.key = k).value
\* d[k] = v: an existing key keeps its place, a new one goes last
DictSet(d, k, v) ==
    IF k \in DictKeys(d)
    THEN [i \in DOMAIN d |-> IF d[i].key = k THEN [key |-> k, value |-> v] ELSE d[i]]
    ELSE Append(d, [key |-> k, value |-> v])

(***************************************************************************)
(* Text.  A change description is the tuple of its characters.             *)
(***************************************************************************)
UpperToLower ==
    [A |-> "a", B |-> "b", C |-> "c", D |-> "d", E |-> "e", F |-> "f", G |-> "g",
     H |-> "h", I |-> "i", J |-> "j", K |-> "k", L |-> "l", M |-> "m", N |-> "n",
     O |-> "o", P |-> "p", Q |-> "q", R |-> "r", S |-> "s", T |-> "t", U |-> "u",
     V |-> "v", W |-> "w", X |-> "x", Y |-> "y", Z |-> "z"]

\* str.lower()
Lower(text) == [i \in DOMAIN text |-> Get(UpperToLower, text[i], text[i])]

\* keyword in text
Contains(keyword, text) ==
    \E i \in 1..(Len(text) - Len(keyword) + 1) :
        SubSeq(text, i, i + Len(keyword) - 1) = keyword

(***************************************************************************)
(* config/settings.py                                                      *)
(***************************************************************************)
WeightKeys == {"complexity_change", "lines_changed", "critical_functions", "security_issues"}

DefaultRiskWeights ==
    [complexity_change  |-> FFromRatio(3, 10),
     lines_changed      |-> FFromRatio(2, 10),
     critical_functions |-> FFromRatio(3, 10),
     security_issues    |-> FFromRatio(2, 10)]

DefaultRiskGates == [PASS |-> 30, WARN |-> 70, BLOCK |-> 100]

(***************************************************************************)
(* modules/risk_assessor.py: the four component scorers                    *)
(***************************************************************************)
\* A faulty _assess_complexity_risk: the final cap at 1.0 is forgotten
ComplexityRiskUncapped(analysis) ==
    LET complexity == Get(analysis, "complexity", None)
        avg_complexity == Get(complexity, "average", 0)
        high_complexity_count == Get(complexity, "high_complexity_count", 0)
    IN  FAdd(FMin(FDivSmall(FloatOfHundredths(avg_complexity), 20), FOne),
             FMin(FMul(FFromInt(high_complexity_count), FFromRatio(1, 10)),
                  FFromRatio(3, 10)))

\* A faulty _assess_complexity_risk: the penalty is not capped at 0.3
ComplexityRiskPenaltyUncapped(analysis) ==
    LET complexity == Get(analysis, "complexity", None)
        avg_complexity == Get(complexity, "average", 0)
        high_complexity_count == Get(complexity, "high_complexity_count", 0)
    IN  FMin(FAdd(FMin(FDivSmall(FloatOfHundredths(avg_complexity), 20), FOne),
                  FMul(FFromInt(high_complexity_count), FFromRatio(1, 10))),
             FOne)

\* analysis['complexity']['average'] is a number of two decimals, held in
\* hundredths
_assess_complexity_risk(analysis) ==
    LET complexity == Get(analysis, "complexity", None)
        avg_complexity == Get(complexity, "average", 0)
        high_complexity_count == Get(complexity, "high_complexity_count", 0)
        complexity_score ==
            FMin(FDivSmall(FloatOfHundredths(avg_complexity), 20), FOne)
        high_complexity_penalty ==
            FMin(FMul(FFromInt(high_complexity_count), FFromRatio(1, 10)),
                 FFromRatio(3, 10))
    IN  FMin(FAdd(complexity_score, high_complexity_penalty), FOne)

\* total_changes / original_lines raises ZeroDivisionError on 0 lines
_assess_change_volume_risk(change_stats) ==
    LET total_changes == Get(change_stats, "total_changes", 0)
        original_lines == Get(change_stats, "original_lines", 1)
    IN  IF original_lines = 0
        THEN Raise("ZeroDivisionError")
        ELSE Return(FMin(FFromRatio(total_changes, original_lines), FOne))

critical_keywords ==
    << <<"s", "e", "c", "u", "r", "i", "t", "y">>,
       <<"a", "u", "t", "h">>,
       <<"p", "a", "s", "s", "w", "o", "r", "d">>,
       <<"t", "o", "k", "e", "n">>,
       <<"d", "a", "t", "a", "b", "a", "s", "e">>,
       <<"s", "q", "l">>,
       <<"q", "u", "e", "r", "y">>,
       <<"e", "n", "c", "r", "y", "p", "t">>,
       <<"d", "e", "c", "r", "y", "p", "t">>,
       <<"v", "a", "l", "i", "d", "a", "t", "e">> >>

\* A faulty _assess_critical_function_risk: the descriptions without a
\* keyword are the ones counted
CriticalRiskInverted(ai_changes) ==
    LET critical_change_count ==
            Cardinality({i \in DOMAIN ai_changes :
                ~ \E k \in DOMAIN critical_keywords :
                    Contains(critical_keywords[k], Lower(ai_changes[i]))})
    IN  IF ai_changes = <<>>
        THEN FZero
        ELSE FMin(FFromRatio(critical_change_count, Len(ai_changes)), FOne)

_assess_critical_function_risk(ai_changes) ==
    LET critical_change_count ==
            Cardinality({i \in DOMAIN ai_changes :
                \E k \in DOMAIN critical_keywords :
                    Contains(critical_keywords[k], Lower(ai_changes[i]))})
    IN  IF ai_changes = <<>>
        THEN FZero
        ELSE FMin(FFromRatio(critical_change_count, Len(ai_changes)), FOne)

severity_scores ==
    [critical |-> FOne,
     high     |-> FFromRatio(8, 10),
     medium   |-> FFromRatio(5, 10),
     low      |-> FFromRatio(2, 10),
     info     |-> FFromRatio(1, 10)]

\* sum() of floats: added one after the other, from the left, starting at 0
FSum(values) ==
    LET acc[i \in 0..Len(values)] ==
            IF i = 0 THEN FZero ELSE FAdd(acc[i - 1], values[i])
    IN  acc[Len(values)]

\* A faulty _assess_issue_severity_risk: an issue without a known severity
\* counts nothing
SeverityRiskUnknownFree(analysis) ==
    LET issues == Get(analysis, "issues", <<>>)
        total_severity ==
            FSum([i \in DOMAIN issues |->
                    Get(severity_scores, Get(issues[i], "severity", "none"), FZero)])
        avg_severity == FDivSmall(total_severity, Len(issues))
    IN  IF issues = <<>> THEN FZero ELSE FMin(avg_severity, FOne)

_assess_issue_severity_risk(analysis) ==
    LET issues == Get(analysis, "issues", <<>>)
        total_severity ==
            FSum([i \in DOMAIN issues |->
                    Get(severity_scores, Get(issues[i], "severity", "low"),
                        FFromRatio(2, 10))])
        avg_severity == FDivSmall(total_severity, Len(issues))
    IN  IF issues = <<>> THEN FZero ELSE FMin(avg_severity, FOne)

(***************************************************************************)
(* modules/risk_assessor.py: gate and recommendations                      *)
(***************************************************************************)
\* A faulty _make_gate_decision: a score on a threshold stays below it
GateDecisionInclusive(risk_score) ==
    IF FLeq(risk_score, FFromInt(RISK_GATES["PASS"])) THEN "PASS"
    ELSE IF FLeq(risk_score, FFromInt(RISK_GATES["WARN"])) THEN "WARN"
    ELSE "BLOCK"

_make_gate_decision(risk_score) ==
    IF FLess(risk_score, FFromInt(RISK_GATES["PASS"])) THEN "PASS"
    ELSE IF FLess(risk_score, FFromInt(RISK_GATES["WARN"])) THEN "WARN"
    ELSE "BLOCK"

\* A faulty _generate_recommendations: a change volume of exactly 0.5 is
\* already advised against
RecommendationsInclusive(total_risk, complexity_risk, change_volume_risk, analysis) ==
    LET issues == Get(analysis, "issues", <<>>)
        medium_high_issues ==
            {i \in DOMAIN issues :
                /\ "severity" \in DOMAIN issues[i]
                /\ issues[i]["severity"] \in {"medium", "high", "critical"}}
    IN  (IF FLess(total_risk, FFromInt(30))
         THEN <<"Low risk changes - safe to proceed">>
         ELSE IF FLess(total_risk, FFromInt(70))
         THEN <<"Medium risk changes - additional review recommended">>
         ELSE <<"High risk changes - thorough review required before deployment">>)
        \o (IF FLess(FFromRatio(7, 10), complexity_risk)
            THEN <<"Consider refactoring high complexity functions">>
            ELSE <<>>)
        \o (IF FLeq(FFromRatio(5, 10), change_volume_risk)
            THEN <<"Large volume of changes - consider breaking into smaller releases">>
            ELSE <<>>)
        \o (IF medium_high_issues # {}
            THEN <<"Address " \o ToString(Cardinality(medium_high_issues))
                   \o " medium/high severity issues">>
            ELSE <<>>)
        \o (IF FLess(FFromInt(40), total_risk)
            THEN <<"Comprehensive testing recommended before deployment",
                   "Consider adding additional unit tests for modified functions">>
            ELSE <<>>)

\* The texts are the source's, less their leading pictograph
_generate_recommendations(total_risk, complexity_risk, change_volume_risk, analysis) ==
    LET issues == Get(analysis, "issues", <<>>)
        medium_high_issues ==
            {i \in DOMAIN issues :
                /\ "severity" \in DOMAIN issues[i]
                /\ issues[i]["severity"] \in {"medium", "high", "critical"}}
    IN  (IF FLess(total_risk, FFromInt(30))
         THEN <<"Low risk changes - safe to proceed">>
         ELSE IF FLess(total_risk, FFromInt(70))
         THEN <<"Medium risk changes - additional review recommended">>
         ELSE <<"High risk changes - thorough review required before deployment">>)
        \o (IF FLess(FFromRatio(7, 10), complexity_risk)
            THEN <<"Consider refactoring high complexity functions">>
            ELSE <<>>)
        \o (IF FLess(FFromRatio(5, 10), change_volume_risk)
            THEN <<"Large volume of changes - consider breaking into smaller releases">>
            ELSE <<>>)
        \o (IF medium_high_issues # {}
            THEN <<"Address " \o ToString(Cardinality(medium_high_issues))
                   \o " medium/high severity issues">>
            ELSE <<>>)
        \o (IF FLess(FFromInt(40), total_risk)
            THEN <<"Comprehensive testing recommended before deployment",
                   "Consider adding additional unit tests for modified functions">>
            ELSE <<>>)

(***************************************************************************)
(* modules/risk_assessor.py: assess_risk and get_overall_assessment        *)
(*                                                                         *)
(* A rounded value (round(x, 2)) is held as its number of hundredths.      *)
(***************************************************************************)
\* A faulty total: the weights of complexity and of change volume swapped
TotalSwapped(complexity_risk, change_volume_risk, critical_function_risk, issue_severity_risk) ==
    FMul(FAdd(FAdd(FAdd(FMul(complexity_risk, RISK_WEIGHTS["lines_changed"]),
                        FMul(change_volume_risk, RISK_WEIGHTS["complexity_change"])),
                   FMul(critical_function_risk, RISK_WEIGHTS["critical_functions"])),
              FMul(issue_severity_risk, RISK_WEIGHTS["security_issues"])),
         FHundred)

\* total_risk, lines 40-45
WeightedTotal(complexity_risk, change_volume_risk, critical_function_risk, issue_severity_risk) ==
    FMul(FAdd(FAdd(FAdd(FMul(complexity_risk, RISK_WEIGHTS["complexity_change"]),
                        FMul(change_volume_risk, RISK_WEIGHTS["lines_changed"])),
                   FMul(critical_function_risk, RISK_WEIGHTS["critical_functions"])),
              FMul(issue_severity_risk, RISK_WEIGHTS["security_issues"])),
         FHundred)

\* A faulty store: the stored score grows with the number of stored files
StoreCounting(self, filename, assessment, locals) ==
    [exc |-> "None",
     val |-> [assessment EXCEPT !.risk_score = @ + Len(self)],
     self |-> DictSet(self, filename, [assessment EXCEPT !.risk_score = @ + Len(self)]),
     frame |-> locals]

\* A faulty store: every call adds an entry
StoreAppending(self, filename, assessment, locals) ==
    [exc |-> "None", val |-> assessment,
     self |-> Append(self, [key |-> filename, value |-> assessment]),
     frame |-> locals]

\* A faulty store: the store is replaced by the one new entry
StoreAlone(self, filename, assessment, locals) ==
    [exc |-> "None", val |-> assessment,
     self |-> <<[key |-> filename, value |-> assessment]>>,
     frame |-> locals]

\* lines 71-72: self.assessments[filename] = assessment; return assessment
Store(self, filename, assessment, locals) ==
    [exc |-> "None", val |-> assessment,
     self |-> DictSet(self, filename, assessment),
     frame |-> locals]

\* lines 47-72, the total computed
Assemble(self, filename, original_analysis, complexity_risk, change_volume_risk, critical_function_risk, issue_severity_risk, total_risk) ==
    Store(self, filename,
          [filename |-> filename,
           risk_score |-> Round2(total_risk),
           gate_decision |-> _make_gate_decision(total_risk),
           risk_components |->
              [complexity_risk |-> Round2(FMul(complexity_risk, FHundred)),
               change_volume_risk |-> Round2(FMul(change_volume_risk, FHundred)),
               critical_function_risk |-> Round2(FMul(critical_function_risk, FHundred)),
               issue_severity_risk |-> Round2(FMul(issue_severity_risk, FHundred))],
           recommendations |->
              _generate_recommendations(total_risk, complexity_risk,
                                        change_volume_risk, original_analysis)],
          [complexity_risk |-> complexity_risk,
           change_volume_risk |-> change_volume_risk,
           critical_function_risk |-> critical_function_risk,
           issue_severity_risk |-> issue_severity_risk,
           total_risk |-> total_risk])

\* lines 40-72, the four components computed; an exception of
\* _assess_change_volume_risk leaves assess_risk
Score(self, filename, original_analysis, complexity_risk, change_volume, critical_function_risk, issue_severity_risk) ==
    IF change_volume.exc # "None"
    THEN [exc |-> change_volume.exc, val |-> None, self |-> self, frame |-> None]
    ELSE Assemble(self, filename, original_analysis, complexity_risk,
                  change_volume.val, critical_function_risk, issue_severity_risk,
                  WeightedTotal(complexity_risk, change_volume.val,
                                critical_function_risk, issue_severity_risk))

\* The outcome [exc, val], the store after the call, and the locals
assess_risk(self, filename, original_analysis, change_stats, ai_changes) ==
    Score(self, filename, original_analysis,
          _assess_complexity_risk(original_analysis),
          _assess_change_volume_risk(change_stats),
          _assess_critical_function_risk(ai_changes),
          _assess_issue_severity_risk(original_analysis))

\* The number of stored assessments with the decision g
GateCount(self, g) ==
    Cardinality({i \in DOMAIN self : self[i].value.gate_decision = g})

\* A faulty get_overall_assessment: the decision of the majority of files
OverallByMajority(self) ==
    LET values == DictValues(self)
        total_risk == FSum([i \in DOMAIN values |-> FloatOfHundredths(values[i].risk_score)])
        avg_risk == FDivSmall(total_risk, Len(self))
        gate_counts == [g \in {"PASS", "WARN", "BLOCK"} |-> GateCount(self, g)]
        overall_decision ==
            IF gate_counts["BLOCK"] > gate_counts["WARN"]
               /\ gate_counts["BLOCK"] > gate_counts["PASS"] THEN "BLOCK"
            ELSE IF gate_counts["WARN"] > gate_counts["PASS"] THEN "WARN"
            ELSE "PASS"
    IN  IF self = <<>>
        THEN Return(None)
        ELSE Return([files_assessed |-> Len(self),
                     average_risk_score |-> Round2(avg_risk),
                     overall_gate_decision |-> overall_decision,
                     gate_counts |-> gate_counts])

\* A faulty get_overall_assessment: the average is cut to a whole number
OverallTruncating(self) ==
    LET values == DictValues(self)
        total_risk == FSum([i \in DOMAIN values |-> FloatOfHundredths(values[i].risk_score)])
        avg_risk == FDivSmall(total_risk, Len(self))
        gate_counts == [g \in {"PASS", "WARN", "BLOCK"} |-> GateCount(self, g)]
        overall_decision ==
            IF gate_counts["BLOCK"] > 0 THEN "BLOCK"
            ELSE IF gate_counts["WARN"] > 0 THEN "WARN"
            ELSE "PASS"
    IN  IF self = <<>>
        THEN Return(None)
        ELSE Return([files_assessed |-> Len(self),
                     average_risk_score |-> (Round2(avg_risk) \div 100) * 100,
                     overall_gate_decision |-> overall_decision,
                     gate_counts |-> gate_counts])

\* A faulty get_overall_assessment: the decision of the file stored last
OverallByLatest(self) ==
    LET values == DictValues(self)
        total_risk == FSum([i \in DOMAIN values |-> FloatOfHundredths(values[i].risk_score)])
        avg_risk == FDivSmall(total_risk, Len(self))
        gate_counts == [g \in {"PASS", "WARN", "BLOCK"} |-> GateCount(self, g)]
    IN  IF self = <<>>
        THEN Return(None)
        ELSE Return([files_assessed |-> Len(self),
                     average_risk_score |-> Round2(avg_risk),
                     overall_gate_decision |-> values[Len(values)].gate_decision,
                     gate_counts |-> gate_counts])

\* RiskAssessor.get_overall_assessment: {} for an empty store
get_overall_assessment(self) ==
    LET values == DictValues(self)
        total_risk == FSum([i \in DOMAIN values |-> FloatOfHundredths(values[i].risk_score)])
        avg_risk == FDivSmall(total_risk, Len(self))
        gate_counts == [g \in {"PASS", "WARN", "BLOCK"} |-> GateCount(self, g)]
        overall_decision ==
            IF gate_counts["BLOCK"] > 0 THEN "BLOCK"
            ELSE IF gate_counts["WARN"] > 0 THEN "WARN"
            ELSE "PASS"
    IN  IF self = <<>>
        THEN Return(None)
        ELSE Return([files_assessed |-> Len(self),
                     average_risk_score |-> Round2(avg_risk),
                     overall_gate_decision |-> overall_decision,
                     gate_counts |-> gate_counts])

(***************************************************************************)
(* Bounds and inputs.                                                      *)
(***************************************************************************)
\* The files of a run
MaxFiles == 2
\* The longest list of issues of an analysis
MaxIssues == 4
\* The largest line count and change count of a diff
MaxLines == 3
\* The largest average complexity, in steps of 5
MaxAverage == 5
\* The largest number of high-complexity functions
MaxHigh == 4
\* The largest score handed to the gate, and how far around a threshold
\* every thousandth is tried
MaxScore == 100
ThresholdWindow == 20

FileNames == <<"a.py", "b.py", "c.py", "d.py", "e.py">>
Files == {FileNames[i] : i \in 1..MaxFiles}

\* Change descriptions as the oracle words them
DescAuth == <<"A", "d", "d", "e", "d", " ", "A", "u", "t", "h", " ", "c", "h", "e", "c", "k">>
DescSql == <<"e", "s", "c", "a", "p", "e", " ", "S", "Q", "L">>
DescRename == <<"R", "e", "n", "a", "m", "e", "d", " ", "x">>

Seqs(S, n) == UNION {[1..k -> S] : k \in 0..n}

Issue(s) == [severity |-> s]
KnownSeverities == {"critical", "high", "medium", "low", "info"}
\* Also an issue without a severity, and one of a severity the table lacks
IssueKinds == {Issue(s) : s \in KnownSeverities} \cup {None, Issue("blocker")}

Complexity(avg, high) == [average |-> avg, high_complexity_count |-> high]
Analysis(avg, high, issues) == [complexity |-> Complexity(avg, high), issues |-> issues]
Stats(changed, lines) == [total_changes |-> changed, original_lines |-> lines]
Args(a, s, c) == [original_analysis |-> a, change_stats |-> s, ai_changes |-> c]

\* Averages are in hundredths: 0, 5.0, 10.0, ..., and 3.33
Averages == {500 * k : k \in 0..MaxAverage} \cup {333}

\* Every list of known issues, for two lists of descriptions
IssueInputs ==
    {Args(Analysis(0, 2, i), Stats(0, 1), d) :
        i \in Seqs({Issue(s) : s \in KnownSeverities}, MaxIssues),
        d \in {<<>>, <<DescAuth, DescRename, DescRename>>}}

\* Every complexity and diff, for three lists of issues and two of
\* descriptions
ShapeInputs ==
    {Args(Analysis(avg, high, i), Stats(ch, ln), d) :
        avg \in Averages, high \in 0..MaxHigh,
        i \in {<<>>, <<Issue("critical")>>, <<Issue("low"), Issue("medium")>>},
        ch \in {0, 1, MaxLines}, ln \in 0..MaxLines,
        d \in {<<>>, <<DescAuth>>}}

\* Dicts that lack keys, and issues that lack a known severity
SparseInputs ==
    {Args(a, s, <<DescSql>>) :
        a \in {None, [issues |-> <<>>], [complexity |-> None]}
              \cup {[issues |-> i] : i \in Seqs(IssueKinds, 2)},
        s \in {None, [total_changes |-> 2], [original_lines |-> 2], Stats(1, 0)}}

\* An analysis without complexity data and issues, and no descriptions
NeutralInputs ==
    {Args(a, s, <<>>) :
        a \in {None, [complexity |-> None, issues |-> <<>>]},
        s \in {None} \cup {Stats(ch, ln) : ch \in 0..MaxLines, ln \in 0..MaxLines}}

\* Components 0.6, 0.2, 0.0 and 0.1
ScenarioInput ==
    Args(Analysis(1000, 1, <<Issue("info")>>), Stats(1, 5), <<DescRename>>)

ScoreInputs ==
    IssueInputs \cup ShapeInputs \cup SparseInputs \cup NeutralInputs \cup {ScenarioInput}

\* The inputs of a run on the store: a PASS, a WARN, a BLOCK, and the diff
\* of an empty original file
PoolInputs ==
    {Args(Analysis(200, 0, <<Issue("low")>>), Stats(1, 3), <<DescRename>>),
     Args(Analysis(1000, 1, <<Issue("medium"), Issue("high")>>), Stats(1, 2),
          <<DescAuth, DescRename>>),
     Args(Analysis(2500, 3, <<Issue("critical")>>), Stats(3, 2), <<DescSql>>),
     Args(Analysis(0, 0, <<>>), Stats(2, 0), <<>>)}

\* Scores for the gate, in thousandths: every hundredth up to MaxScore, and
\* every thousandth around the two default thresholds
GateInputs ==
    {s \in 0..(MaxScore * 1000) :
        \/ s % 10 = 0
        \/ (30000 - ThresholdWindow <= s /\ s <= 30000 + ThresholdWindow)
        \/ (70000 - ThresholdWindow <= s /\ s <= 70000 + ThresholdWindow)}

(***************************************************************************)
(* The RiskAssessor object: assess_risk and get_overall_assessment called  *)
(* in any order on the files of a run.                                     *)
(***************************************************************************)
\* The outcome of a call that was issued and has not run
Pending == [exc |-> "pending", val |-> None]

AssessCall(filename, args) ==
    [op |-> "assess_risk", filename |-> filename,
     original_analysis |-> args.original_analysis,
     change_stats |-> args.change_stats,
     ai_changes |-> args.ai_changes]

\* returned, after the call c returned val.  times counts the returns of c
\* for its file in a row (2 stands for more), between tells whether another
\* file was assessed since the first of them.
Record(c, val) ==
    [k \in DOMAIN returned \cup {c.filename} |->
        IF k # c.filename
        THEN [returned[k] EXCEPT !.between = TRUE]
        ELSE IF k \in DOMAIN returned /\ returned[k].call = c
        THEN [returned[k] EXCEPT !.times = 2]
        ELSE [call |-> c, val |-> val, times |-> 1, between |-> FALSE]]

\* RiskAssessor.__init__ under the settings as shipped
Init ==
    /\ RISK_WEIGHTS = DefaultRiskWeights
    /\ RISK_GATES = DefaultRiskGates
    /\ assessments = <<>>
    /\ call = [op |-> "__init__"]
    /\ result = Return(None)
    /\ frame = None
    /\ returned = <<>>
    /\ ai_engine = None
    /\ batch = None
    /\ threads = None

\* The call c of assess_risk, run on the store
Run(c) ==
    \E out \in {assess_risk(assessments, c.filename, c.original_analysis,
                          c.change_stats, c.ai_changes)} :
        /\ call' = c
        /\ result' = [exc |-> out.exc, val |-> out.val]
        /\ assessments' = out.self
        /\ frame' = out.frame
        /\ returned' = IF out.exc = "None" THEN Record(c, out.val) ELSE returned

Assess(c) ==
    /\ Run(c)
    /\ UNCHANGED <<RISK_WEIGHTS, RISK_GATES, ai_engine, batch, threads>>

AssessRisk(filename, args) == Assess(AssessCall(filename, args))

GetOverallAssessment ==
    /\ call' = [op |-> "get_overall_assessment"]
    /\ result' = get_overall_assessment(assessments)
    /\ UNCHANGED <<RISK_WEIGHTS, RISK_GATES, assessments, frame, returned,
                   ai_engine, batch, threads>>

Next ==
    \/ \E filename \in Files, args \in PoolInputs : AssessRisk(filename, args)
    \/ GetOverallAssessment

Spec == Init /\ [][Next]_vars

(***************************************************************************)
(* _make_gate_decision as a function of the score, under the thresholds as *)
(* shipped.  The score is given in thousandths and is the float its        *)
(* decimal denotes.                                                        *)
(***************************************************************************)
InitGate ==
    /\ RISK_WEIGHTS = DefaultRiskWeights
    /\ RISK_GATES = DefaultRiskGates
    /\ assessments = <<>>
    /\ \E s \in GateInputs : call = [op |-> "_make_gate_decision", risk_score |-> s]
    /\ result = Pending
    /\ frame = None
    /\ returned = <<>>
    /\ ai_engine = None
    /\ batch = None
    /\ threads = None

MakeGateDecision ==
    /\ call.op = "_make_gate_decision"
    /\ result = Pending
    /\ result' = Return(_make_gate_decision(FFromRatio(call.risk_score, 1000)))
    /\ UNCHANGED <<RISK_WEIGHTS, RISK_GATES, assessments, call, frame, returned,
                   ai_engine, batch, threads>>

NextGate == MakeGateDecision

SpecGate == InitGate /\ [][NextGate]_vars

(***************************************************************************)
(* assess_risk as a function of its arguments, on a fresh RiskAssessor,    *)
(* and again on the same arguments listed in another order.                *)
(***************************************************************************)
InitScore ==
    /\ RISK_WEIGHTS = DefaultRiskWeights
    /\ RISK_GATES = DefaultRiskGates
    /\ assessments = <<>>
    /\ \E args \in ScoreInputs : call = AssessCall("a.py", args)
    /\ result = Pending
    /\ frame = None
    /\ returned = <<>>
    /\ ai_engine = None
    /\ batch = None
    /\ threads = None

RunAssessRisk ==
    /\ call.op = "assess_risk"
    /\ result = Pending
    /\ Assess(call)

\* s with the items at i and i + 1 exchanged
Swap(s, i) ==
    [k \in DOMAIN s |-> IF k = i THEN s[i + 1] ELSE IF k = i + 1 THEN s[i] ELSE s[k]]

\* The calls that differ from c in the order of two neighbouring issues or
\* of two neighbouring change descriptions
Reorderings(c) ==
    LET issues == Get(c.original_analysis, "issues", <<>>)
    IN  {[c EXCEPT !.original_analysis =
                [k \in DOMAIN c.original_analysis |->
                    IF k = "issues" THEN Swap(issues, i) ELSE c.original_analysis[k]]] :
            i \in 1..(Len(issues) - 1)}
        \cup {[c EXCEPT !.ai_changes = Swap(c.ai_changes, i)] :
                i \in 1..(Len(c.ai_changes) - 1)}

AssessReordered ==
    /\ call.op = "assess_risk"
    /\ result # Pending
    /\ \E c \in Reorderings(call) : c # call /\ Assess(c)

NextScore == RunAssessRisk \/ AssessReordered

SpecScore == InitScore /\ [][NextScore]_vars

(***************************************************************************)
(* assess_risk on a call and then on the same call with one input raised:  *)
(* a larger average complexity, one more changed line, a description that  *)
(* gains a sensitive keyword, or one more description with a keyword.      *)
(***************************************************************************)
\* The longest list of change descriptions of a raised call
MaxDescriptions == 3

MonoInputs ==
    {Args(Analysis(avg, high, i), Stats(ch, ln), d) :
        avg \in Averages, high \in {0, MaxHigh},
        i \in {<<Issue("low"), Issue("medium")>>},
        ch \in 0..MaxLines, ln \in 1..MaxLines,
        d \in {<<>>, <<DescRename>>, <<DescRename, DescAuth>>}}

InitMono ==
    /\ RISK_WEIGHTS = DefaultRiskWeights
    /\ RISK_GATES = DefaultRiskGates
    /\ assessments = <<>>
    /\ \E args \in MonoInputs : call = AssessCall("a.py", args)
    /\ result = Pending
    /\ frame = None
    /\ returned = <<>>
    /\ ai_engine = None
    /\ batch = None
    /\ threads = None

\* Whether the description names a sensitive keyword (lines 118-121)
Sensitive(description) ==
    \E k \in DOMAIN critical_keywords : Contains(critical_keywords[k], Lower(description))

WithAverage(c, avg) ==
    [c EXCEPT !.original_analysis =
        [issues |-> c.original_analysis.issues,
         complexity |-> Complexity(avg, c.original_analysis.complexity.high_complexity_count)]]

\* The calls that differ from c in a larger complexity.average
RaisedAverage(c) ==
    {WithAverage(c, avg) :
        avg \in {a \in Averages : a > c.original_analysis.complexity.average}}

\* The call that differs from c in one more changed line
RaisedChanges(c) ==
    IF c.change_stats.total_changes <= MaxLines
    THEN {[c EXCEPT !.change_stats =
            Stats(c.change_stats.total_changes + 1, c.change_stats.original_lines)]}
    ELSE {}

\* The calls that differ from c in one description that gained a keyword,
\* or in one more description with a keyword
RaisedMatches(c) ==
    {[c EXCEPT !.ai_changes = [@ EXCEPT ![i] = DescAuth]] :
        i \in {j \in DOMAIN c.ai_changes : ~ Sensitive(c.ai_changes[j])}}
    \cup (IF Len(c.ai_changes) < MaxDescriptions
          THEN {[c EXCEPT !.ai_changes = Append(@, DescAuth)]}
          ELSE {})

Raisings(c) == RaisedAverage(c) \cup RaisedChanges(c) \cup RaisedMatches(c)

AssessRaised ==
    /\ call.op = "assess_risk"
    /\ result.exc = "None"
    /\ \E c \in Raisings(call) : Assess(c)

NextMono == RunAssessRisk \/ AssessRaised

SpecMono == InitMono /\ [][NextMono]_vars


(***************************************************************************)
(* config/settings.py edited: the import of the settings under any weights *)
(* and thresholds a deployment may write there, and assess_risk under them.*)
(***************************************************************************)
\* The largest weight written, in tenths
MaxTenths == 3
WeightTenths == (MaxTenths - 1)..MaxTenths
GateValues == {30, 50, 70}

InitCfg ==
    /\ RISK_WEIGHTS = None
    /\ RISK_GATES = None
    /\ assessments = <<>>
    /\ call = [op |-> "__init__"]
    /\ result = Return(None)
    /\ frame = None
    /\ returned = <<>>
    /\ ai_engine = None
    /\ batch = None
    /\ threads = None

\* import config.settings: the assignments of lines 129-142, and nothing else
LoadSettings(weights, pass, warn) ==
    /\ RISK_WEIGHTS = None
    /\ RISK_WEIGHTS' = [k \in WeightKeys |-> FFromRatio(weights[k], 10)]
    /\ RISK_GATES' = [PASS |-> pass, WARN |-> warn, BLOCK |-> 100]
    /\ call' = [op |-> "import config.settings"]
    /\ result' = Return(None)
    /\ UNCHANGED <<assessments, frame, returned, ai_engine, batch, threads>>

AssessRiskConfigured ==
    /\ RISK_WEIGHTS # None
    /\ \E args \in PoolInputs : AssessRisk(FileNames[1], args)

NextCfg ==
    \/ \E weights \in [WeightKeys -> WeightTenths], pass \in GateValues, warn \in GateValues :
            LoadSettings(weights, pass, warn)
    \/ AssessRiskConfigured

SpecCfg == InitCfg /\ [][NextCfg]_vars

(***************************************************************************)
(* modules/ai_engine.py.  A text is the sequence of its lines.  What the   *)
(* model object answers to one generate_content call is a response:        *)
(* [kind |-> "raise"], [kind |-> "none"] (it returns None) or              *)
(* [kind |-> "text", text |-> t], t None for the empty text and else the   *)
(* sections of the answer, [modified_code, changes_made].                  *)
(***************************************************************************)
\* The default of AIEngine.__init__'s max_retries
DefaultMaxRetries == 3

\* The defaults of AIEngine.__init__'s retry_delay and rate_limit_delay, in
\* seconds
DefaultRetryDelay == 2

DefaultRateLimitDelay == 1

\* config/settings.py, AI_OPTIONAL
AI_OPTIONAL == TRUE

\* AIEngine.__init__ that ended with the given enabled flag and model
AIEngine(enabled, optional, model) ==
    [enabled |-> enabled, optional |-> optional, max_retries |-> DefaultMaxRetries,
     retry_delay |-> DefaultRetryDelay, rate_limit_delay |-> DefaultRateLimitDelay,
     model |-> model, api_call_count |-> 0]

\* func is called until it returns, at most max_retries times; attempts are
\* its answers in turn.  The last exception is raised again.
_retry_with_backoff(self, attempts) ==
    LET returning == {i \in 1..self.max_retries : attempts[i].kind # "raise"}
        first == CHOOSE i \in returning : \A j \in returning : i <= j
    IN  IF returning = {} THEN Raise("Exception") ELSE Return(attempts[first])

_fallback_response(source_code, reason) ==
    [modified_code |-> source_code,
     changes_made |-> <<>>,
     explanation |-> reason,
     success |-> FALSE,
     fallback |-> TRUE]

_parse_ai_response(response_text, original_code) ==
    [modified_code |->
        IF response_text.modified_code = None THEN original_code
        ELSE response_text.modified_code,
     changes_made |-> response_text.changes_made,
     explanation |-> "",
     success |-> TRUE,
     fallback |-> FALSE]

\* AIEngine.analyze_and_modify: the outcome and the engine after it
analyze_and_modify(self, source_code, attempts) ==
    LET response == _retry_with_backoff(self, attempts)
        failure ==
            IF response.exc # "None" THEN response.exc
            ELSE IF response.val.kind = "none" THEN "ValueError"
            ELSE IF response.val.text = None THEN "ValueError"
            ELSE "None"
    IN  IF ~self.enabled
        THEN [exc |-> "None", self |-> self,
              val |-> _fallback_response(source_code, "AI is disabled")]
        ELSE IF self.model = None
        THEN [exc |-> "None", self |-> self,
              val |-> _fallback_response(source_code, "AI model is not initialized")]
        ELSE IF failure = "None"
        THEN [exc |-> "None",
              self |-> [self EXCEPT !.api_call_count = @ + 1],
              val |-> _parse_ai_response(response.val.text, source_code)]
        ELSE IF self.optional
        THEN [exc |-> "None", self |-> self,
              val |-> _fallback_response(source_code, failure)]
        ELSE [exc |-> failure, self |-> self, val |-> None]

(***************************************************************************)
(* modules/change_detector.py and modules/code_analyzer.py                 *)
(***************************************************************************)
\* The length of the longest common prefix
CommonPrefix(a, b) ==
    Cardinality({n \in 1..Len(a) : n <= Len(b) /\ SubSeq(a, 1, n) = SubSeq(b, 1, n)})

\* The opcodes after the common block: an insert when only the modified text
\* goes on, a delete when only the original does, a replace when both do
_calculate_diff_stats(original, modified) ==
    LET p == CommonPrefix(original, modified)
        left == Len(original) - p
        right == Len(modified) - p
        additions == IF left = 0 THEN right ELSE 0
        deletions == IF right = 0 THEN left ELSE 0
        modifications ==
            IF left > 0 /\ right > 0 THEN (IF left > right THEN left ELSE right) ELSE 0
    IN  [original_lines |-> Len(original),
         modified_lines |-> Len(modified),
         lines_added |-> additions,
         lines_deleted |-> deletions,
         lines_modified |-> modifications,
         total_changes |-> additions + deletions + modifications]

detect_changes(filename, original_code, modified_code) ==
    [filename |-> filename,
     has_changes |-> original_code # modified_code,
     statistics |-> _calculate_diff_stats(original_code, modified_code)]

\* The two source files of the model: one without lines, and one function
\* of cyclomatic complexity 1 without a docstring
EmptyModule == <<>>
OneFunction == <<"def f(x):", "    return x">>

\* radon's cc_visit: the complexities of the blocks of the text
cc_visit(source_code) == IF source_code = EmptyModule THEN <<>> ELSE <<1>>

_analyze_complexity(source_code) ==
    LET complexities == cc_visit(source_code)
        total[i \in 0..Len(complexities)] ==
            IF i = 0 THEN 0 ELSE total[i - 1] + complexities[i]
    IN  [average |->
            IF complexities = <<>> THEN 0
            ELSE Round2(FFromRatio(total[Len(complexities)], Len(complexities))),
         high_complexity_count |->
            Cardinality({i \in DOMAIN complexities : complexities[i] > 10})]

\* One issue of severity low for the function without a docstring
_detect_issues(source_code) ==
    IF source_code = EmptyModule THEN <<>> ELSE <<Issue("low")>>

analyze_file(filename, source_code) ==
    [filename |-> filename,
     complexity |-> _analyze_complexity(source_code),
     issues |-> _detect_issues(source_code)]

(***************************************************************************)
(* main.py, process_batch: static analysis of every file, then the oracle  *)
(* for every analysed file, then the diffs, then the risk assessments.     *)
(* batch.pc is the loop that runs and batch.i the item it is at;           *)
(* batch.oracle logs what the model object answered for each file, and     *)
(* batch.at is the file at which an exception left process_batch.          *)
(***************************************************************************)
\* The files of a batch
MaxBatch == 2

Sources == {EmptyModule, OneFunction}

Raising == [kind |-> "raise"]

Answer(source_code) ==
    [kind |-> "text",
     text |-> [modified_code |-> source_code \o <<"check(x)">>,
               changes_made |-> <<DescAuth>>]]

\* What the model object may answer for a text: it raises, returns None,
\* returns no text, an answer without a code section, or a full answer
Responses(source_code) ==
    {Raising, [kind |-> "none"], [kind |-> "text", text |-> None],
     [kind |-> "text", text |-> [modified_code |-> None, changes_made |-> <<>>]],
     Answer(source_code)}

\* The answers in turn: it raises k times, then answers
Attempts(source_code) ==
    {[i \in 1..DefaultMaxRetries |-> IF i <= k THEN Raising ELSE r] :
        k \in 0..(DefaultMaxRetries - 1), r \in Responses(source_code)}

Batches ==
    UNION {[1..n -> [source_code : Sources, ast : BOOLEAN]] : n \in 1..MaxBatch}

\* The locals on entry, for the caller main (process_batch) or app
\* (run_irms_pipeline, which runs the same four loops)
Entered(files, caller) ==
    [pc |-> "analysis", i |-> 1, caller |-> caller,
     files_batch |-> [i \in DOMAIN files |->
                        [key |-> FileNames[i], value |-> files[i].source_code]],
     asts |-> {FileNames[i] : i \in {j \in DOMAIN files : files[j].ast}},
     analysis_results |-> <<>>, ai_results |-> <<>>,
     change_results |-> <<>>, risk_assessments |-> <<>>,
     oracle |-> <<>>, exc |-> "None", at |-> "", results |-> None]

\* The objects main constructs, and one of the AIEngines its construction
\* may end in
Constructed ==
    /\ RISK_WEIGHTS = DefaultRiskWeights
    /\ RISK_GATES = DefaultRiskGates
    /\ assessments = <<>>
    /\ call = [op |-> "__init__"]
    /\ result = Return(None)
    /\ frame = None
    /\ returned = <<>>
    /\ \E enabled \in BOOLEAN, model \in {None, <<"gemini">>} :
        /\ (model # None => enabled)
        /\ ai_engine = AIEngine(enabled, AI_OPTIONAL, model)

InitPipe ==
    /\ Constructed
    /\ threads = None
    /\ \E files \in Batches : batch = Entered(files, "main")

\* The loop at pc moves to its next item, or the next loop starts
Advance(b, next) ==
    IF b.i < Len(b.files_batch) THEN [b EXCEPT !.i = @ + 1]
    ELSE [b EXCEPT !.pc = next, !.i = 1]

\* lines 191-199
StaticAnalysis ==
    /\ batch.pc = "analysis"
    /\ batch.files_batch # <<>>
    /\ LET item == batch.files_batch[batch.i]
       IN  batch' =
            IF item.key \notin batch.asts
            THEN Advance(batch, "ai")
            ELSE Advance([batch EXCEPT !.analysis_results =
                            DictSet(@, item.key, analyze_file(item.key, item.value))],
                         "ai")
    /\ UNCHANGED <<RISK_WEIGHTS, RISK_GATES, assessments, call, result, frame,
                   returned, ai_engine, threads>>

\* lines 201-216.  demo_run (demo.py 80-92) has the same loop without the
\* test of line 203: analysis_results[filename] raises KeyError for a file
\* that was not analysed.
AIModification ==
    /\ batch.pc = "ai"
    /\ LET item == batch.files_batch[batch.i]
       IN  IF item.key \notin DictKeys(batch.analysis_results)
           THEN /\ batch' = IF batch.caller = "demo"
                            THEN [batch EXCEPT !.pc = "raised", !.exc = "KeyError",
                                               !.at = item.key]
                            ELSE Advance(batch, "changes")
                /\ UNCHANGED ai_engine
           ELSE \E attempts \in Attempts(item.value) :
                \E out \in {analyze_and_modify(ai_engine, item.value, attempts)} :
                    /\ ai_engine' = out.self
                    /\ batch' =
                        IF out.exc # "None"
                        THEN [batch EXCEPT !.pc = "raised", !.exc = out.exc,
                                           !.at = item.key,
                                           !.oracle = DictSet(@, item.key, attempts)]
                        ELSE Advance([batch EXCEPT
                                        !.ai_results = DictSet(@, item.key, out.val),
                                        !.oracle = DictSet(@, item.key, attempts)],
                                     "changes")
    /\ UNCHANGED <<RISK_WEIGHTS, RISK_GATES, assessments, call, result, frame,
                   returned, threads>>

\* lines 218-225
ChangeDetection ==
    /\ batch.pc = "changes"
    /\ LET item == batch.files_batch[batch.i]
       IN  batch' =
            IF item.key \notin DictKeys(batch.ai_results)
            THEN Advance(batch, "risk")
            ELSE Advance([batch EXCEPT !.change_results =
                            DictSet(@, item.key,
                                detect_changes(item.key, item.value,
                                    DictGet(batch.ai_results, item.key).modified_code))],
                         "risk")
    /\ UNCHANGED <<RISK_WEIGHTS, RISK_GATES, assessments, call, result, frame,
                   returned, ai_engine, threads>>

\* lines 227-238, over the analysed files; an exception of assess_risk leaves
\* process_batch, and main with it
RiskAssessment ==
    /\ batch.pc = "risk"
    /\ IF batch.i > Len(batch.analysis_results)
       THEN /\ batch' = [batch EXCEPT !.pc = "done"]
            /\ UNCHANGED <<assessments, call, result, frame, returned>>
       ELSE LET filename == batch.analysis_results[batch.i].key
            IN  IF \/ filename \notin DictKeys(batch.change_results)
                   \/ filename \notin DictKeys(batch.ai_results)
                THEN /\ batch' = [batch EXCEPT !.i = @ + 1]
                     /\ UNCHANGED <<assessments, call, result, frame, returned>>
                ELSE /\ Run([op |-> "assess_risk",
                             filename |-> filename,
                             original_analysis |-> batch.analysis_results[batch.i].value,
                             change_stats |->
                                 DictGet(batch.change_results, filename).statistics,
                             ai_changes |->
                                 DictGet(batch.ai_results, filename).changes_made])
                     /\ batch' =
                            IF result'.exc # "None"
                            THEN [batch EXCEPT !.pc = "raised", !.exc = result'.exc,
                                               !.at = filename]
                            ELSE [batch EXCEPT
                                    !.i = @ + 1,
                                    !.risk_assessments = DictSet(@, filename, result'.val)]
    /\ UNCHANGED <<RISK_WEIGHTS, RISK_GATES, ai_engine, threads>>

NextPipe == StaticAnalysis \/ AIModification \/ ChangeDetection \/ RiskAssessment

SpecPipe == InitPipe /\ [][NextPipe]_vars

(***************************************************************************)
(* main.py, main: the ingested files are split into batches of batch_size  *)
(* when there are more than that, process_batch runs on each batch in      *)
(* turn, then the overall assessment, the outputs and the final summary.   *)
(* threads holds the locals of main, batch those of the process_batch that *)
(* runs.                                                                   *)
(***************************************************************************)
ENABLE_BATCH_PROCESSING == TRUE

\* The values of --batch-size
BatchSizes == 1..MaxBatch

\* lines 326-330: the items in slices of batch_size
Slices(file_items, batch_size) ==
    [k \in 1..((Len(file_items) + batch_size - 1) \div batch_size) |->
        SubSeq(file_items, (k - 1) * batch_size + 1,
               IF k * batch_size < Len(file_items) THEN k * batch_size
               ELSE Len(file_items))]

\* The locals of process_batch on entry: ingestion.get_ast answers from
\* python_asts as it is during the call
EnteredBatch(files_batch, python_asts) ==
    [Entered(<<>>, "main") EXCEPT !.files_batch = files_batch, !.asts = python_asts]

\* dict.update: the items of other set in d, in their order
Update(d, other) ==
    LET acc[i \in 0..Len(other)] ==
            IF i = 0 THEN d ELSE DictSet(acc[i - 1], other[i].key, other[i].value)
    IN  acc[Len(other)]

\* lines 283-345: ingestion, construction, and the first call of
\* process_batch
InitMain ==
    /\ Constructed
    /\ \E files \in Batches, batch_size \in BatchSizes :
        LET all_files == Entered(files, "main").files_batch
            python_asts == Entered(files, "main").asts
            batched == ENABLE_BATCH_PROCESSING /\ Len(all_files) > batch_size
            batches == IF batched THEN Slices(all_files, batch_size) ELSE <<all_files>>
        IN  /\ threads = [pc |-> "process_batch", python_asts |-> python_asts,
                          parsed |-> python_asts, batched |-> batched,
                          batches |-> batches, batch_num |-> 1,
                          analysis_results |-> <<>>, risk_assessments |-> <<>>,
                          overall_risk |-> None, report_path |-> "None",
                          exc |-> "None"]
            /\ batch = EnteredBatch(batches[1], python_asts)

\* A faulty loop over the batches: it ends after the first batch
ReturnBatchEarly ==
    /\ threads.pc = "process_batch"
    /\ batch.pc = "done"
    /\ threads' = [threads EXCEPT
            !.pc = "overall",
            !.analysis_results = Update(@, batch.analysis_results),
            !.risk_assessments = Update(@, batch.risk_assessments)]
    /\ batch' = [batch EXCEPT !.pc = "returned"]
    /\ UNCHANGED <<RISK_WEIGHTS, RISK_GATES, assessments, call, result, frame,
                   returned, ai_engine>>

\* lines 339-368: process_batch returned.  In a batched run its results
\* are merged, the cache of ingestion is cleared, and the next batch, if
\* any, is processed.
ReturnBatch ==
    /\ threads.pc = "process_batch"
    /\ batch.pc = "done"
    /\ LET python_asts == IF threads.batched THEN {} ELSE threads.python_asts
           merged == [threads EXCEPT
                        !.python_asts = python_asts,
                        !.analysis_results = Update(@, batch.analysis_results),
                        !.risk_assessments = Update(@, batch.risk_assessments)]
       IN  IF threads.batch_num < Len(threads.batches)
           THEN /\ threads' = [merged EXCEPT !.batch_num = @ + 1]
                /\ batch' = EnteredBatch(threads.batches[threads.batch_num + 1],
                                         python_asts)
           ELSE /\ threads' = [merged EXCEPT !.pc = "overall"]
                /\ batch' = [batch EXCEPT !.pc = "returned"]
    /\ UNCHANGED <<RISK_WEIGHTS, RISK_GATES, assessments, call, result, frame,
                   returned, ai_engine>>

\* line 370: overall_risk = risk_assessor.get_overall_assessment()
OverallRisk ==
    /\ threads.pc = "overall"
    /\ call' = [op |-> "get_overall_assessment"]
    /\ result' = get_overall_assessment(assessments)
    /\ threads' = [threads EXCEPT !.pc = "output", !.overall_risk = result'.val]
    /\ UNCHANGED <<RISK_WEIGHTS, RISK_GATES, assessments, frame, returned,
                   ai_engine, batch>>

\* lines 372-391: the modified files and the report are written, or the
\* writing raises
Output(written) ==
    /\ threads.pc = "output"
    /\ threads' = IF written
                  THEN [threads EXCEPT !.pc = "summary", !.report_path = "report.md"]
                  ELSE [threads EXCEPT !.pc = "raised", !.exc = "OSError"]
    /\ UNCHANGED <<RISK_WEIGHTS, RISK_GATES, assessments, call, result, frame,
                   returned, ai_engine, batch>>

\* lines 393-413: the final summary prints overall_risk['overall_gate_decision']
\* and overall_risk['average_risk_score'], then main returns 0
Summary ==
    /\ threads.pc = "summary"
    /\ threads' = IF "overall_gate_decision" \in DOMAIN threads.overall_risk
                  THEN [threads EXCEPT !.pc = "exit"]
                  ELSE [threads EXCEPT !.pc = "raised", !.exc = "KeyError"]
    /\ call' = [op |-> "main"]
    /\ result' = IF "overall_gate_decision" \in DOMAIN threads.overall_risk
                 THEN Return(0) ELSE Raise("KeyError")
    /\ UNCHANGED <<RISK_WEIGHTS, RISK_GATES, assessments, frame, returned,
                   ai_engine, batch>>

NextMain ==
    \/ StaticAnalysis
    \/ AIModification
    \/ ChangeDetection
    \/ RiskAssessment
    \/ ReturnBatch
    \/ OverallRisk
    \/ \E written \in BOOLEAN : Output(written)
    \/ Summary

SpecMain == InitMain /\ [][NextMain]_vars


(***************************************************************************)
(* demo.py, demo_run: the four loops over all ingested files.  Only the    *)
(* static analysis skips a file without an AST.                            *)
(***************************************************************************)
InitDemo ==
    /\ Constructed
    /\ threads = None
    /\ \E files \in Batches : batch = Entered(files, "demo")

NextDemo == StaticAnalysis \/ AIModification \/ ChangeDetection \/ RiskAssessment

SpecDemo == InitDemo /\ [][NextDemo]_vars


(***************************************************************************)
(* One RiskAssessor shared by threads: a worker per file that runs         *)
(* assess_risk, and a reader that runs get_overall_assessment.  The code   *)
(* takes no lock.  A thread switch can fall between any two bytecodes: an  *)
(* item assignment of a dict is one step, a pass over                      *)
(* self.assessments.values() begins with the creation of the iterator and  *)
(* ends when it is exhausted, and the iterator raises RuntimeError         *)
(* ("dictionary changed size during iteration") once the dict has another  *)
(* size than at its creation.                                              *)
(***************************************************************************)
\* The arguments of the workers: those of the pool that assess_risk
\* returns on
ConcInputs == {a \in PoolInputs : Get(a.change_stats, "original_lines", 1) # 0}

\* The reader before its call: no iterator, nothing summed or counted
NewReader ==
    [pc |-> "idle", used |-> 0 - 1, total_risk |-> FZero, len |-> 0,
     gate_counts |-> [PASS |-> 0, WARN |-> 0, BLOCK |-> 0]]

InitConc ==
    /\ RISK_WEIGHTS = DefaultRiskWeights
    /\ RISK_GATES = DefaultRiskGates
    /\ assessments = <<>>
    /\ call = [op |-> "__init__"]
    /\ result = Return(None)
    /\ frame = None
    /\ returned = <<>>
    /\ ai_engine = None
    /\ batch = None
    /\ \E args \in [Files -> ConcInputs] :
        threads = [workers |-> [f \in Files |->
                                   [pc |-> "called", args |-> args[f], assessment |-> None]],
                   reader |-> NewReader,
                   stores |-> {<<>>}]

\* assess_risk lines 40-69 in the worker of filename: the components, the
\* total and the assessment record, all locals
WorkerAssess(filename) ==
    /\ threads.workers[filename].pc = "called"
    /\ threads' = [threads EXCEPT
            !.workers[filename].pc = "assessed",
            !.workers[filename].assessment =
                assess_risk(<<>>, filename,
                            threads.workers[filename].args.original_analysis,
                            threads.workers[filename].args.change_stats,
                            threads.workers[filename].args.ai_changes).val]
    /\ UNCHANGED <<RISK_WEIGHTS, RISK_GATES, assessments, call, result, frame,
                   returned, ai_engine, batch>>

\* assess_risk lines 71-72: self.assessments[filename] = assessment
WorkerStore(filename) ==
    /\ threads.workers[filename].pc = "assessed"
    /\ assessments' = Store(assessments, filename,
                            threads.workers[filename].assessment, None).self
    /\ threads' = [threads EXCEPT
            !.workers[filename].pc = "returned",
            !.stores = @ \cup {assessments'}]
    /\ UNCHANGED <<RISK_WEIGHTS, RISK_GATES, call, result, frame, returned,
                   ai_engine, batch>>

\* get_overall_assessment lines 210-211: if not self.assessments
ReaderCheck ==
    /\ threads.reader.pc = "idle"
    /\ call' = [op |-> "get_overall_assessment"]
    /\ IF assessments = <<>>
       THEN /\ result' = Return(None)
            /\ threads' = [threads EXCEPT !.reader.pc = "returned"]
       ELSE /\ result' = Pending
            /\ threads' = [threads EXCEPT !.reader.pc = "risk_score"]
    /\ UNCHANGED <<RISK_WEIGHTS, RISK_GATES, assessments, frame, returned,
                   ai_engine, batch>>

Passes == {"risk_score", "PASS", "WARN", "BLOCK"}

\* lines 213, 217-219: self.assessments.values() is iterated from its start
ReaderIterate ==
    /\ threads.reader.pc \in Passes
    /\ threads.reader.used = 0 - 1
    /\ threads' = [threads EXCEPT !.reader.used = Len(assessments)]
    /\ UNCHANGED <<RISK_WEIGHTS, RISK_GATES, assessments, call, result, frame,
                   returned, ai_engine, batch>>

\* The reader after a pass that ended without an exception
Passed(reader, self) ==
    IF reader.pc = "risk_score"
    THEN [reader EXCEPT
            !.pc = "len", !.used = 0 - 1,
            !.total_risk = FSum([i \in DOMAIN self |->
                                    FloatOfHundredths(self[i].value.risk_score)])]
    ELSE [reader EXCEPT
            !.pc = IF @ = "PASS" THEN "WARN" ELSE IF @ = "WARN" THEN "BLOCK"
                   ELSE "files_assessed",
            !.used = 0 - 1,
            !.gate_counts[reader.pc] = GateCount(self, reader.pc)]

\* lines 213, 217-219: the pass ends.  The iterator raises if the dict has
\* grown since its creation.
ReaderExhaust ==
    /\ threads.reader.pc \in Passes
    /\ threads.reader.used # 0 - 1
    /\ IF Len(assessments) # threads.reader.used
       THEN /\ threads' = [threads EXCEPT !.reader.pc = "raised"]
            /\ result' = Raise("RuntimeError")
       ELSE /\ threads' = [threads EXCEPT !.reader = Passed(@, assessments)]
            /\ UNCHANGED result
    /\ UNCHANGED <<RISK_WEIGHTS, RISK_GATES, assessments, call, frame, returned,
                   ai_engine, batch>>

\* line 214: avg_risk = total_risk / len(self.assessments)
ReaderLen ==
    /\ threads.reader.pc = "len"
    /\ threads' = [threads EXCEPT !.reader.pc = "PASS", !.reader.len = Len(assessments)]
    /\ UNCHANGED <<RISK_WEIGHTS, RISK_GATES, assessments, call, result, frame,
                   returned, ai_engine, batch>>

\* lines 222-235: the overall decision, and the record returned, with
\* len(self.assessments) read again
ReaderReturn ==
    /\ threads.reader.pc = "files_assessed"
    /\ threads' = [threads EXCEPT !.reader.pc = "returned"]
    /\ result' =
        Return([files_assessed |-> Len(assessments),
                average_risk_score |->
                    Round2(FDivSmall(threads.reader.total_risk, threads.reader.len)),
                overall_gate_decision |->
                    IF threads.reader.gate_counts["BLOCK"] > 0 THEN "BLOCK"
                    ELSE IF threads.reader.gate_counts["WARN"] > 0 THEN "WARN"
                    ELSE "PASS",
                gate_counts |-> threads.reader.gate_counts])
    /\ UNCHANGED <<RISK_WEIGHTS, RISK_GATES, assessments, call, frame, returned,
                   ai_engine, batch>>

NextConc ==
    \/ \E filename \in Files : WorkerAssess(filename)
    \/ \E filename \in Files : WorkerStore(filename)
    \/ ReaderCheck
    \/ ReaderIterate
    \/ ReaderExhaust
    \/ ReaderLen
    \/ ReaderReturn

SpecConc == InitConc /\ [][NextConc]_vars


(***************************************************************************)
(* modules/ai_engine.py, analyze_and_modify step by step: the engine calls *)
(* self.model.generate_content and waits for it to return or raise; after  *)
(* an exception it sleeps and calls again, at most max_retries times.  The *)
(* code sets no timeout on the call: what ends the wait is the answer of   *)
(* the model service only.                                                 *)
(***************************************************************************)
\* The calls of analyze_and_modify in a run
MaxCalls == 3

\* Time is counted in ticks
TicksPerSecond == 2

\* The longest a generate_content call takes, and the longest the run does
\* other work between two calls of analyze_and_modify, in ticks
MaxLatency == 2

MaxIdle == 1

\* The clock of the run, relative to the moments the code and the model
\* service see: elapsed is time.time() - self.last_api_call_time, gap the
\* time since the latest request to the model was started, and spacing the
\* gap there was when that request was started.  None of them matters
\* beyond the rate limit delay, where they stop.
Clock(elapsed, gap, spacing) ==
    [elapsed |-> elapsed, gap |-> gap, spacing |-> spacing]

Limit(self) == self.rate_limit_delay * TicksPerSecond

Least2(a, b) == IF a <= b THEN a ELSE b

\* d ticks pass
Pass(self, clock, d) ==
    [clock EXCEPT !.elapsed = Least2(@ + d, Limit(self)),
                  !.gap = Least2(@ + d, Limit(self))]

\* generate_content is called
Request(clock) == [clock EXCEPT !.spacing = clock.gap, !.gap = 0]

\* lines 100-105
_rate_limit_wait(self, clock) ==
    [(IF clock.elapsed < Limit(self)
      THEN Pass(self, clock, Limit(self) - clock.elapsed)
      ELSE clock) EXCEPT !.elapsed = 0]

\* line 114, the delay after failed attempt number attempt, without backoff
DelayConstant(self, attempt) == self.retry_delay * TicksPerSecond

\* line 114, in ticks
Delay(self, attempt) == self.retry_delay * (2 ^ attempt) * TicksPerSecond

\* The thread of the run: where it is in analyze_and_modify, the attempt it
\* is at, the answers of the attempts so far, the calls it has made, the
\* sleeps of _retry_with_backoff in this call, and the clock
OracleThread(pc, attempt, log, calls, delays, clock) ==
    [pc |-> pc, attempt |-> attempt, log |-> log, calls |-> calls,
     delays |-> delays, clock |-> clock]

\* last_api_call_time is 0 after __init__, and no request has been made
InitOracle ==
    /\ RISK_WEIGHTS = DefaultRiskWeights
    /\ RISK_GATES = DefaultRiskGates
    /\ assessments = <<>>
    /\ call = [op |-> "__init__"]
    /\ result = Return(None)
    /\ frame = None
    /\ returned = <<>>
    /\ batch = None
    /\ \E enabled \in BOOLEAN, model \in {None, <<"gemini">>} :
        /\ (model # None => enabled)
        /\ ai_engine = AIEngine(enabled, AI_OPTIONAL, model)
        /\ threads = OracleThread("idle", 0, <<>>, 0, <<>>,
                                  Clock(Limit(ai_engine), Limit(ai_engine),
                                        Limit(ai_engine)))

\* The answers of the attempts made, as _retry_with_backoff saw them
Padded(log) ==
    [i \in 1..DefaultMaxRetries |-> IF i <= Len(log) THEN log[i] ELSE Raising]

\* lines 130-153: the call returns the fallback at once when the engine is
\* disabled or has no model, and else waits for the rate limit and calls
\* the model
Called(source_code, clock) ==
    /\ call' = [op |-> "analyze_and_modify", source_code |-> source_code]
    /\ IF ~ai_engine.enabled \/ ai_engine.model = None
       THEN /\ result' = Return(analyze_and_modify(ai_engine, source_code,
                                                   Padded(<<>>)).val)
            /\ threads' = OracleThread("returned", 0, <<>>, threads.calls + 1,
                                       <<>>, clock)
       ELSE /\ result' = Pending
            /\ threads' = OracleThread("waiting", 1, <<>>, threads.calls + 1, <<>>,
                                       Request(_rate_limit_wait(ai_engine, clock)))
    /\ UNCHANGED <<RISK_WEIGHTS, RISK_GATES, assessments, frame, returned,
                   ai_engine, batch>>

\* The loop of the run reaches its next call after less than a tick or more
CallAnalyzeAndModify(source_code) ==
    /\ threads.pc \in {"idle", "returned"}
    /\ threads.calls < MaxCalls
    /\ \E idle \in 0..MaxIdle :
            Called(source_code, Pass(ai_engine, threads.clock, idle))

\* lines 109-119 and 155-175: generate_content returned or raised.  An
\* exception before the last attempt is followed by time.sleep; any other
\* answer ends the call.
Answered(r, clock) ==
    /\ IF r.kind = "raise" /\ threads.attempt < ai_engine.max_retries
       THEN /\ threads' = [threads EXCEPT !.pc = "sleeping", !.log = Append(@, r),
                                          !.clock = clock]
            /\ UNCHANGED <<result, ai_engine>>
       ELSE \E out \in {analyze_and_modify(ai_engine, call.source_code,
                                           Padded(Append(threads.log, r)))} :
            /\ threads' = [threads EXCEPT !.pc = "returned", !.log = Append(@, r),
                                          !.clock = clock]
            /\ result' = [exc |-> out.exc, val |-> out.val]
            /\ ai_engine' = out.self
    /\ UNCHANGED <<RISK_WEIGHTS, RISK_GATES, assessments, call, frame, returned, batch>>

\* The model service answers after some time
Respond ==
    /\ threads.pc = "waiting"
    /\ \E r \in Responses(call.source_code), latency \in 1..MaxLatency :
            Answered(r, Pass(ai_engine, threads.clock, latency))

\* lines 114-117: time.sleep(delay) is over, the next attempt is made
Slept(delay) ==
    /\ threads' = [threads EXCEPT !.pc = "waiting", !.attempt = @ + 1,
                                  !.delays = Append(@, delay),
                                  !.clock = Request(Pass(ai_engine, @, delay))]
    /\ UNCHANGED <<RISK_WEIGHTS, RISK_GATES, assessments, call, result, frame,
                   returned, ai_engine, batch>>

Backoff ==
    /\ threads.pc = "sleeping"
    /\ Slept(Delay(ai_engine, threads.attempt - 1))

NextOracle ==
    \/ \E source_code \in Sources : CallAnalyzeAndModify(source_code)
    \/ Respond
    \/ Backoff

\* The engine's own steps are taken when they can be: a call returns at
\* once in fallback mode, and a sleep ends.  Nothing in the code makes the
\* model service answer.
SpecOracle ==
    /\ InitOracle
    /\ [][NextOracle]_vars
    /\ WF_vars(Backoff)


(***************************************************************************)
(* app.py, run_irms_pipeline: the loops of process_batch inside one try,   *)
(* then the overall assessment and the report.  Every exception ends in    *)
(* the except clause, which returns the results record.                    *)
(***************************************************************************)
\* results as initialised, lines 55-66
NewResults ==
    [success |-> FALSE, risk |-> None, overall_risk |-> None,
     report_path |-> "None", error |-> "None"]

\* A faulty except clause: the error is dropped and the run counts as done
CaughtSilently(results, exc) == [results EXCEPT !.success = TRUE]

\* lines 172-175: except Exception as e
Caught(results, exc) == [results EXCEPT !.error = exc]

InitApp ==
    /\ Constructed
    /\ threads = None
    /\ \E files \in Batches \cup {<<>>} : batch = Entered(files, "app")

\* lines 69-75: no Python file was ingested
AppNoFiles ==
    /\ batch.caller = "app"
    /\ batch.pc = "analysis"
    /\ batch.files_batch = <<>>
    /\ batch' = [batch EXCEPT
                    !.pc = "returned",
                    !.results = [NewResults EXCEPT
                                    !.error = "No Python files found to analyze"]]
    /\ call' = [op |-> "run_irms_pipeline"]
    /\ result' = Return(batch'.results)
    /\ UNCHANGED <<RISK_WEIGHTS, RISK_GATES, assessments, frame, returned,
                   ai_engine, threads>>

\* lines 149-170: the overall assessment, then the report, which is written
\* or raises
AppReport(written) ==
    /\ batch.caller = "app"
    /\ batch.pc = "done"
    /\ batch' =
        IF written
        THEN [batch EXCEPT
                !.pc = "returned",
                !.results = [NewResults EXCEPT
                                !.risk = batch.risk_assessments,
                                !.overall_risk = get_overall_assessment(assessments).val,
                                !.report_path = "report.md",
                                !.success = TRUE]]
        ELSE [batch EXCEPT
                !.pc = "raised", !.exc = "OSError",
                !.results = [NewResults EXCEPT
                                !.risk = batch.risk_assessments,
                                !.overall_risk = get_overall_assessment(assessments).val]]
    /\ call' = [op |-> "run_irms_pipeline"]
    /\ result' = IF written THEN Return(batch'.results) ELSE Pending
    /\ UNCHANGED <<RISK_WEIGHTS, RISK_GATES, assessments, frame, returned,
                   ai_engine, threads>>

\* lines 172-177: an exception of any phase is caught, and results returned
AppExcept ==
    /\ batch.caller = "app"
    /\ batch.pc = "raised"
    /\ batch' = [batch EXCEPT
                    !.pc = "returned",
                    !.results = Caught(IF batch.results = None THEN NewResults
                                       ELSE batch.results, batch.exc)]
    /\ call' = [op |-> "run_irms_pipeline"]
    /\ result' = Return(batch'.results)
    /\ UNCHANGED <<RISK_WEIGHTS, RISK_GATES, assessments, frame, returned,
                   ai_engine, threads>>

NextApp ==
    \/ StaticAnalysis
    \/ AIModification
    \/ ChangeDetection
    \/ RiskAssessment
    \/ AppNoFiles
    \/ \E written \in BOOLEAN : AppReport(written)
    \/ AppExcept

SpecApp == InitApp /\ [][NextApp]_vars

(***************************************************************************)
(* Properties.                                                             *)
(***************************************************************************)
\* C1: under the default thresholds _make_gate_decision returns PASS exactly
\* for scores below 30, WARN exactly for scores from 30 up to but not
\* including 70, and BLOCK exactly for scores of 70 and more; so 29.999 is
\* PASS, 30 is WARN, 69.999 is WARN and 70 is BLOCK.  (SpecGate; the score
\* is in thousandths.)
C1_GateThresholds ==
    (call.op = "_make_gate_decision" /\ result # Pending) =>
        /\ result.exc = "None"
        /\ result.val = "PASS" <=> call.risk_score < 30000
        /\ result.val = "WARN" <=> (30000 <= call.risk_score /\ call.risk_score < 70000)
        /\ result.val = "BLOCK" <=> call.risk_score >= 70000
        /\ call.risk_score = 29999 => result.val = "PASS"
        /\ call.risk_score = 69999 => result.val = "WARN"

\* A score of exactly 30 was decided, and is WARN
C1_Witness ==
    /\ call.op = "_make_gate_decision"
    /\ call.risk_score = 30000
    /\ result = Return("WARN")

\* C2: get_overall_assessment never raises; on an empty store it returns the
\* empty dict; otherwise its overall_gate_decision is BLOCK if any stored
\* assessment is BLOCK, else WARN if any is WARN, else PASS, however many
\* files hold each decision.  (Spec)
C2_MostRestrictive ==
    call.op = "get_overall_assessment" =>
        LET decisions == {assessments[i].value.gate_decision : i \in DOMAIN assessments}
        IN  /\ result.exc = "None"
            /\ assessments = <<>> => result.val = None
            /\ assessments # <<>> =>
                result.val.overall_gate_decision =
                    IF "BLOCK" \in decisions THEN "BLOCK"
                    ELSE IF "WARN" \in decisions THEN "WARN"
                    ELSE "PASS"

\* One BLOCK file next to a PASS file made the run BLOCK
C2_Witness ==
    /\ call.op = "get_overall_assessment"
    /\ Len(assessments) = 2
    /\ assessments[1].value.gate_decision = "PASS"
    /\ assessments[2].value.gate_decision = "BLOCK"
    /\ result.exc = "None"
    /\ result.val.overall_gate_decision = "BLOCK"

\* C3: for valid arguments (original_lines >= 1; averages and counts are
\* never negative here) assess_risk returns, each of its four component
\* scores is in [0, 1], each reported risk_component is in [0, 100] and the
\* risk_score is in [0, 100].  (SpecScore; reported values in hundredths.)
C3_ScoresInRange ==
    (/\ call.op = "assess_risk"
     /\ result # Pending
     /\ Get(call.change_stats, "original_lines", 1) >= 1) =>
        /\ result.exc = "None"
        /\ \A k \in {"complexity_risk", "change_volume_risk",
                     "critical_function_risk", "issue_severity_risk"} :
            /\ FLeq(FZero, frame[k]) /\ FLeq(frame[k], FOne)
            /\ result.val.risk_components[k] \in 0..10000
        /\ FLeq(frame.total_risk, FHundred)
        /\ result.val.risk_score \in 0..10000

\* All four components were at their maximum, and the score was 100
C3_Witness ==
    /\ call.op = "assess_risk"
    /\ result.exc = "None"
    /\ frame.complexity_risk = FOne
    /\ frame.change_volume_risk = FOne
    /\ frame.critical_function_risk = FOne
    /\ frame.issue_severity_risk = FOne
    /\ result.val.risk_score = 10000

\* C4: with original_lines = 0 in the change statistics, assess_risk returns
\* an assessment and the change-volume score is 1.0.  (SpecScore)
C4_ZeroLinesIsMaximal ==
    (/\ call.op = "assess_risk"
     /\ result # Pending
     /\ Get(call.change_stats, "original_lines", 1) = 0) =>
        /\ result.exc = "None"
        /\ frame.change_volume_risk = FOne

\* The oracle gave no usable answer for a file: the engine is disabled or
\* has no model, or every attempt raised, or the first that returned gave
\* None or an empty text
OracleFailed(attempts) ==
    \/ ~ai_engine.enabled
    \/ ai_engine.model = None
    \/ \A i \in 1..DefaultMaxRetries :
            \/ attempts[i].kind = "raise"
            \/ /\ \A j \in 1..(i - 1) : attempts[j].kind = "raise"
               /\ (attempts[i].kind = "none" \/ attempts[i].text = None)

\* C5: for a file whose oracle call failed or was disabled, the result is
\* the fallback (the original code, no change, success false), the run is
\* not aborted at that file, and when the batch is done the file has a risk
\* assessment with critical_function_risk 0.  (SpecPipe)
C5_FallbackNeverAborts ==
    \A i \in DOMAIN batch.oracle :
        LET filename == batch.oracle[i].key
        IN  OracleFailed(batch.oracle[i].value) =>
                /\ batch.at # filename
                /\ filename \in DictKeys(batch.ai_results) =>
                        LET r == DictGet(batch.ai_results, filename)
                        IN  /\ r.modified_code = DictGet(batch.files_batch, filename)
                            /\ r.changes_made = <<>>
                            /\ r.success = FALSE
                /\ batch.pc = "done" =>
                        /\ filename \in DictKeys(batch.risk_assessments)
                        /\ DictGet(batch.risk_assessments, filename)
                                .risk_components.critical_function_risk = 0

\* The settings as loaded break a rule of the configuration: the weights
\* (two decimals each) do not sum to 1.0, or the thresholds do not ascend
Misconfigured ==
    /\ RISK_WEIGHTS # None
    /\ \/ Round2(RISK_WEIGHTS["complexity_change"]) + Round2(RISK_WEIGHTS["lines_changed"])
            + Round2(RISK_WEIGHTS["critical_functions"])
            + Round2(RISK_WEIGHTS["security_issues"]) # 100
       \/ ~(RISK_GATES["PASS"] < RISK_GATES["WARN"] /\ RISK_GATES["WARN"] < RISK_GATES["BLOCK"])

\* C6: under settings whose weights do not sum to 1.0 or whose thresholds do
\* not ascend, the load fails and no assessment is ever produced.  (SpecCfg)
C6_FailFast ==
    Misconfigured =>
        /\ (call.op = "import config.settings" => result.exc # "None")
        /\ returned = <<>>
        /\ assessments = <<>>

\* C7: a call of assess_risk with the arguments of the last call for the
\* same file returns the record that call returned and leaves the store as it
\* was, whatever was assessed in between.  (Spec)
C7_Idempotent ==
    [][(/\ call'.op = "assess_risk"
        /\ result'.exc = "None"
        /\ call'.filename \in DOMAIN returned
        /\ returned[call'.filename].call = call') =>
            /\ result'.val = returned[call'.filename].val
            /\ assessments' = assessments]_vars

\* A call was repeated after another file had been assessed in between
C7_Witness ==
    /\ call.op = "assess_risk"
    /\ result.exc = "None"
    /\ call.filename \in DOMAIN returned
    /\ returned[call.filename].times = 2
    /\ returned[call.filename].between
    /\ Len(assessments) = 2

\* C8: risk_score, risk_components and gate_decision of a file are the same
\* when its issues, or its change descriptions, are listed in another order.
\* (SpecScore)
C8_OrderIndependent ==
    [][(/\ call.op = "assess_risk" /\ result.exc = "None"
        /\ call'.op = "assess_risk" /\ result'.exc = "None"
        /\ call' \in Reorderings(call)) =>
            /\ result'.val.risk_score = result.val.risk_score
            /\ result'.val.risk_components = result.val.risk_components
            /\ result'.val.gate_decision = result.val.gate_decision]_vars

\* C9: the store holds exactly one entry for each filename assess_risk has
\* returned for, the entry is the record of the last such return, and no
\* filename ever leaves the store.  (Spec)
C9_StoreKeepsLatest ==
    /\ [](/\ \A i, j \in DOMAIN assessments :
                assessments[i].key = assessments[j].key => i = j
          /\ DictKeys(assessments) = DOMAIN returned
          /\ \A i \in DOMAIN assessments :
                assessments[i].value = returned[assessments[i].key].val)
    /\ [][DictKeys(assessments) \subseteq DictKeys(assessments')]_vars

\* The file stored first was reassessed after a second file had been stored,
\* and its entry, still the first, is the record just returned
C9_Witness ==
    /\ Len(assessments) = 2
    /\ call.op = "assess_risk"
    /\ result.exc = "None"
    /\ call.filename = assessments[1].key
    /\ assessments[1].value = result.val
    /\ returned[call.filename].times = 1
    /\ returned[assessments[2].key].between

\* C10 as stated: on a non-empty store files_assessed is the number of
\* filenames, the gate_counts sum to it, and average_risk_score times
\* files_assessed is the sum of the stored risk_scores.  (Spec; hundredths)
C10_ExactMean ==
    (call.op = "get_overall_assessment" /\ assessments # <<>>) =>
        LET total[i \in 0..Len(assessments)] ==
                IF i = 0 THEN 0 ELSE total[i - 1] + assessments[i].value.risk_score
        IN  /\ result.exc = "None"
            /\ result.val.files_assessed = Cardinality(DictKeys(assessments))
            /\ result.val.gate_counts["PASS"] + result.val.gate_counts["WARN"]
                + result.val.gate_counts["BLOCK"] = result.val.files_assessed
            /\ result.val.average_risk_score * result.val.files_assessed
                = total[Len(assessments)]

\* C10 as the code has it: average_risk_score is that mean rounded to two
\* decimals, so it is within half a hundredth of the mean.  (Spec)
C10_RoundedMean ==
    (call.op = "get_overall_assessment" /\ assessments # <<>>) =>
        LET total[i \in 0..Len(assessments)] ==
                IF i = 0 THEN 0 ELSE total[i - 1] + assessments[i].value.risk_score
            n == result.val.files_assessed
            d == (result.val.average_risk_score * n) - total[Len(assessments)]
        IN  /\ result.exc = "None"
            /\ n = Cardinality(DictKeys(assessments))
            /\ result.val.gate_counts["PASS"] + result.val.gate_counts["WARN"]
                + result.val.gate_counts["BLOCK"] = n
            /\ 2 * d <= n
            /\ 0 - n <= 2 * d

\* Two files of scores 13.67 and 56.0 were averaged to 34.83 or 34.84
C10_Witness ==
    /\ call.op = "get_overall_assessment"
    /\ Len(assessments) = 2
    /\ assessments[1].value.risk_score + assessments[2].value.risk_score = 6967
    /\ result.val.files_assessed = 2
    /\ result.val.average_risk_score \in {3483, 3484}

\* C11: under the default weights the score of an assessment is
\* 100 * (0.3 complexity + 0.2 change volume + 0.3 critical + 0.2 severity),
\* each component with its own weight: in hundredths, the score is within
\* one hundredth of the sum weighted from the reported components; and the
\* components 0.6, 0.2, 0.0, 0.1 give 24.0 and PASS.  (SpecScore)
C11_WeightedTotal ==
    (call.op = "assess_risk" /\ result.exc = "None") =>
        LET c == result.val.risk_components
            weighted == (30 * c.complexity_risk) + (20 * c.change_volume_risk)
                        + (30 * c.critical_function_risk) + (20 * c.issue_severity_risk)
            d == (100 * result.val.risk_score) - weighted
        IN  /\ d <= 100
            /\ 0 - 100 <= d
            /\ (/\ c.complexity_risk = 6000 /\ c.change_volume_risk = 2000
                /\ c.critical_function_risk = 0 /\ c.issue_severity_risk = 1000)
                    => (result.val.risk_score = 2400 /\ result.val.gate_decision = "PASS")

\* The scenario of components 0.6, 0.2, 0.0, 0.1 was assessed
C11_Witness ==
    /\ call.op = "assess_risk"
    /\ result.exc = "None"
    /\ call.original_analysis = ScenarioInput.original_analysis
    /\ call.change_stats = ScenarioInput.change_stats
    /\ result.val.risk_components =
            [complexity_risk |-> 6000, change_volume_risk |-> 2000,
             critical_function_risk |-> 0, issue_severity_risk |-> 1000]
    /\ result.val.risk_score = 2400
    /\ result.val.gate_decision = "PASS"


\* How restrictive a gate decision is
GateRank(g) == IF g = "PASS" THEN 0 ELSE IF g = "WARN" THEN 1 ELSE 2

\* C12: when a call is assessed again with a larger complexity.average, or
\* one more changed line, or a description that gained a sensitive keyword,
\* or one more description with a keyword, and nothing else changed, then
\* the component concerned does not decrease, and neither do the other
\* components, the score, or the restrictiveness of the gate decision.
\* (SpecMono)
C12_Monotone ==
    [][(/\ call.op = "assess_risk"
        /\ result.exc = "None"
        /\ call' \in Raisings(call))
       => /\ result'.exc = "None"
          /\ (call' \in RaisedAverage(call)) =>
                FLeq(frame.complexity_risk, frame'.complexity_risk)
          /\ (call' \in RaisedChanges(call)) =>
                FLeq(frame.change_volume_risk, frame'.change_volume_risk)
          /\ (call' \in RaisedMatches(call)) =>
                FLeq(frame.critical_function_risk, frame'.critical_function_risk)
          /\ FLeq(frame.total_risk, frame'.total_risk)
          /\ \A k \in DOMAIN result.val.risk_components :
                result.val.risk_components[k] <= result'.val.risk_components[k]
          /\ result.val.risk_score <= result'.val.risk_score
          /\ GateRank(result.val.gate_decision) <= GateRank(result'.val.gate_decision)]_vars

\* A call raised in its changed lines beyond every first call, and in
\* its descriptions to two with a keyword, was assessed and is blocked
C12_Witness ==
    /\ call.op = "assess_risk"
    /\ result.exc = "None"
    /\ call.change_stats.total_changes = MaxLines + 1
    /\ call.ai_changes = <<DescAuth, DescAuth>>
    /\ result.val.risk_components.critical_function_risk = 10000
    /\ result.val.gate_decision = "BLOCK"

\* The weight of an issue in tenths: critical 1.0, high 0.8, medium 0.5,
\* low 0.2, info 0.1, and 0.2 without a known severity
SeverityTenths(issue) ==
    LET s == IF "severity" \in DOMAIN issue THEN issue["severity"] ELSE "low"
    IN  IF s = "critical" THEN 10 ELSE IF s = "high" THEN 8
        ELSE IF s = "medium" THEN 5 ELSE IF s = "info" THEN 1 ELSE 2

SumTenths(issues) ==
    LET acc[i \in 0..Len(issues)] ==
            IF i = 0 THEN 0 ELSE acc[i - 1] + SeverityTenths(issues[i])
    IN  acc[Len(issues)]

\* C13: the issue severity component of an assessment is the mean of the
\* weights of its issues (an issue without a known severity weighs 0.2):
\* the reported component, in hundredths of a percent, is the mean rounded;
\* it is 0.0 for no issues, exactly 1.0 when every issue is critical, and
\* the same for a list and for the list taken twice.  (SpecScore)
C13_SeverityMean ==
    (call.op = "assess_risk" /\ result.exc = "None") =>
        LET issues == Get(call.original_analysis, "issues", <<>>)
            n == Len(issues)
            reported == result.val.risk_components.issue_severity_risk
            d == (2 * n * reported) - (2000 * SumTenths(issues))
        IN  /\ d <= n
            /\ 0 - n <= d
            /\ (n = 0) => (frame.issue_severity_risk = FZero /\ reported = 0)
            /\ (n > 0 /\ \A i \in DOMAIN issues : SeverityTenths(issues[i]) = 10)
                    => (frame.issue_severity_risk = FOne /\ reported = 10000)
            /\ (2 * n <= MaxIssues) =>
                    reported = Round2(FMul(_assess_issue_severity_risk(
                                    [issues |-> issues \o issues]), FHundred))

\* An assessment of two issues, one of them without a known severity, and
\* one of four critical issues
C13_Witness ==
    /\ call.op = "assess_risk"
    /\ result.exc = "None"
    /\ \/ /\ Get(call.original_analysis, "issues", <<>>) = <<Issue("blocker"), Issue("critical")>>
          /\ result.val.risk_components.issue_severity_risk = 6000
       \/ /\ Get(call.original_analysis, "issues", <<>>) = <<None, Issue("high")>>
          /\ result.val.risk_components.issue_severity_risk = 5000

Least(a, b) == IF a <= b THEN a ELSE b

\* C14: complexity_risk is min(min(average / 20, 1) + min(0.1 * high, 0.3), 1),
\* high the number of high-complexity functions: the reported component,
\* in hundredths of a percent with the average in hundredths, is
\* min(min(5 * average, 10000) + min(1000 * high, 3000), 10000); an average
\* of 10 with one such function gives 0.6 and, alone, 18 points.  (SpecScore)
C14_ComplexityFormula ==
    (call.op = "assess_risk" /\ result.exc = "None") =>
        LET complexity == Get(call.original_analysis, "complexity", None)
            average == Get(complexity, "average", 0)
            high == Get(complexity, "high_complexity_count", 0)
            c == result.val.risk_components
        IN  /\ c.complexity_risk =
                  Least(Least(5 * average, 10000) + Least(1000 * high, 3000), 10000)
            /\ (average = 1000 /\ high = 1) =>
                  /\ frame.complexity_risk = FFromRatio(6, 10)
                  /\ (/\ c.change_volume_risk = 0 /\ c.critical_function_risk = 0
                      /\ c.issue_severity_risk = 0) => result.val.risk_score = 1800

\* Average 10 and one high-complexity function, and nothing else of risk
C14_Witness ==
    /\ call.op = "assess_risk"
    /\ result.exc = "None"
    /\ call.original_analysis = Analysis(1000, 1, <<>>)
    /\ result.val.risk_components =
            [complexity_risk |-> 6000, change_volume_risk |-> 0,
             critical_function_risk |-> 0, issue_severity_risk |-> 0]
    /\ result.val.risk_score = 1800

\* The advisories of an assessment as the claim lists them
Advisories(total_risk, complexity_risk, change_volume_risk, n) ==
    << IF FLess(total_risk, FFromInt(30)) THEN "Low risk changes - safe to proceed"
       ELSE IF FLess(total_risk, FFromInt(70))
       THEN "Medium risk changes - additional review recommended"
       ELSE "High risk changes - thorough review required before deployment" >>
    \o (IF FLess(FFromRatio(7, 10), complexity_risk)
        THEN <<"Consider refactoring high complexity functions">> ELSE <<>>)
    \o (IF FLess(FFromRatio(5, 10), change_volume_risk)
        THEN <<"Large volume of changes - consider breaking into smaller releases">>
        ELSE <<>>)
    \o (IF n > 0
        THEN <<"Address " \o ToString(n) \o " medium/high severity issues">> ELSE <<>>)
    \o (IF FLess(FFromInt(40), total_risk)
        THEN <<"Comprehensive testing recommended before deployment",
               "Consider adding additional unit tests for modified functions">>
        ELSE <<>>)

\* C15: the recommendations of an assessment are, in this order, the
\* advisory of the band of the total (below 30, below 70, else), the
\* refactoring advisory iff complexity_risk > 0.7, the smaller-releases
\* advisory iff change_volume_risk > 0.5, the advisory naming the number n
\* of medium, high and critical issues iff n > 0, and the two testing
\* advisories iff total > 40; the band agrees with the gate decision and
\* the list has 1 to 6 entries.  (SpecScore)
C15_Recommendations ==
    (call.op = "assess_risk" /\ result.exc = "None") =>
        LET issues == Get(call.original_analysis, "issues", <<>>)
            n == Cardinality({i \in DOMAIN issues : SeverityTenths(issues[i]) >= 5})
            r == result.val.recommendations
        IN  /\ r = Advisories(frame.total_risk, frame.complexity_risk,
                              frame.change_volume_risk, n)
            /\ Len(r) >= 1
            /\ Len(r) <= 6
            /\ (r[1] = "Low risk changes - safe to proceed")
                    <=> (result.val.gate_decision = "PASS")
            /\ (r[1] = "High risk changes - thorough review required before deployment")
                    <=> (result.val.gate_decision = "BLOCK")

\* An assessment with all six advisories
C15_Witness ==
    /\ call.op = "assess_risk"
    /\ result.exc = "None"
    /\ Len(result.val.recommendations) = 6
    /\ result.val.recommendations[4] = "Address 1 medium/high severity issues"
    /\ result.val.gate_decision = "BLOCK"

\* A call with a neutral analysis (no complexity data, no issues) and no
\* change descriptions
NeutralCall(c) ==
    /\ c.op = "assess_risk"
    /\ Get(c.original_analysis, "issues", <<>>) = <<>>
    /\ Get(Get(c.original_analysis, "complexity", None), "average", 0) = 0
    /\ Get(Get(c.original_analysis, "complexity", None), "high_complexity_count", 0) = 0
    /\ c.ai_changes = <<>>

\* C16: assess_risk on a neutral analysis and no change descriptions
\* returns an assessment, whose complexity, issue severity and critical
\* function components are 0 and whose score is 0.2 of the change volume
\* component, rounded.  (SpecScore)
C16_NeutralNeverRaises ==
    (NeutralCall(call) /\ result # Pending) =>
        /\ result.exc = "None"
        /\ result.val.risk_components.complexity_risk = 0
        /\ result.val.risk_components.issue_severity_risk = 0
        /\ result.val.risk_components.critical_function_risk = 0
        /\ LET d == (100 * result.val.risk_score)
                     - (20 * result.val.risk_components.change_volume_risk)
           IN  d <= 60 /\ 0 - 60 <= d

\* C17: whatever a phase of run_irms_pipeline raises, assess_risk included,
\* is caught: the step after the exception returns the results record with
\* success false and the error set, and every return hands back the
\* results record; success is true only if nothing was raised.  (SpecApp)
C17_NothingEscapes ==
    [][/\ (batch.pc = "raised") =>
            /\ batch'.pc = "returned"
            /\ batch'.results.success = FALSE
            /\ batch'.results.error = batch.exc
            /\ batch'.results.error # "None"
       /\ (batch'.pc = "returned") =>
            /\ result' = Return(batch'.results)
            /\ batch'.results.success => batch'.exc = "None"]_vars

\* assess_risk raised ZeroDivisionError in the run, and the run returned
\* results without success that name the error
C17_Witness ==
    /\ batch.caller = "app"
    /\ batch.pc = "returned"
    /\ batch.exc = "ZeroDivisionError"
    /\ result = Return(batch.results)
    /\ batch.results.success = FALSE
    /\ batch.results.error = "ZeroDivisionError"

\* C18: every call of analyze_and_modify eventually returns, the parsed
\* result or the fallback, even when the model service never answers.
\* (SpecOracle)
C18_EveryCallReturns ==
    (call.op = "analyze_and_modify" /\ result = Pending)
        ~> (call.op = "analyze_and_modify" /\ result # Pending)

\* C19: with a worker per file running assess_risk on one RiskAssessor and
\* get_overall_assessment running beside them, once the workers have
\* returned the store holds, for each file, the record a sequential call
\* gives; and get_overall_assessment does not raise, and what it returns
\* is its result on a store that existed during the run.  (SpecConc)
C19_ConcurrentSafe ==
    /\ (\A f \in Files : threads.workers[f].pc = "returned") =>
            /\ DictKeys(assessments) = Files
            /\ Len(assessments) = Cardinality(Files)
            /\ \A f \in Files :
                    DictGet(assessments, f) =
                        assess_risk(<<>>, f, threads.workers[f].args.original_analysis,
                                    threads.workers[f].args.change_stats,
                                    threads.workers[f].args.ai_changes).val
    /\ threads.reader.pc # "raised"
    /\ (threads.reader.pc = "returned") =>
            \E self \in threads.stores : result = get_overall_assessment(self)

\* C20: a step of assess_risk for a filename leaves every other entry of
\* the store as it was, in its place, and adds or replaces only the entry
\* of that filename, by a record that is the one the arguments alone give
\* (on an empty store); a call that raises, and get_overall_assessment,
\* leave the whole store unchanged.  (Spec)
C20_Frame ==
    [][/\ (call'.op = "assess_risk") =>
            /\ \A i \in DOMAIN assessments :
                    assessments[i].key # call'.filename => assessments'[i] = assessments[i]
            /\ DictKeys(assessments') \subseteq DictKeys(assessments) \cup {call'.filename}
            /\ (result'.exc = "None") =>
                    /\ DictGet(assessments', call'.filename) = result'.val
                    /\ result'.val = assess_risk(<<>>, call'.filename,
                                                 call'.original_analysis,
                                                 call'.change_stats, call'.ai_changes).val
            /\ (result'.exc # "None") => assessments' = assessments
       /\ (call'.op = "get_overall_assessment") => assessments' = assessments]_vars

\* b.py was assessed after a.py, and the entry of a.py is the record that
\* the call for a.py returned
C20_Witness ==
    /\ call.op = "assess_risk"
    /\ call.filename = "b.py"
    /\ result.exc = "None"
    /\ Len(assessments) = 2
    /\ "a.py" \in DOMAIN returned
    /\ returned["a.py"].between
    /\ assessments[1] = [key |-> "a.py", value |-> returned["a.py"].val]
    /\ assessments[2] = [key |-> "b.py", value |-> result.val]

\* The files of the run that ingestion could not parse
Unparsed == DictKeys(batch.files_batch) \ batch.asts

\* C21: a file whose parsing failed at ingestion gets no analysis, no
\* oracle call, no diff and no assessment; the run is never left by an
\* exception at such a file; and when the loops are through, every other
\* file of the run is assessed.  (SpecDemo)
C21_BadFileSkipped ==
    /\ \A f \in Unparsed :
            /\ f \notin DictKeys(batch.analysis_results)
            /\ f \notin DictKeys(batch.oracle)
            /\ f \notin DictKeys(batch.ai_results)
            /\ f \notin DictKeys(batch.change_results)
            /\ f \notin DictKeys(batch.risk_assessments)
    /\ (batch.pc = "raised") => batch.at \notin Unparsed
    /\ (batch.pc \in {"done", "returned"} /\ batch.exc = "None"
            /\ batch.files_batch # <<>>) =>
            batch.asts \subseteq DictKeys(batch.risk_assessments)

\* C22: in a run of main, within a batch an oracle result exists only for
\* an analysed file, a diff only for a file with an oracle result, and an
\* assessment only for a file with a diff, and each loop starts after the
\* one before it has ended; when process_batch is through, the files it
\* assessed are exactly the files of the batch that have all three; the
\* store holds exactly the files assessed in the batches; and the overall
\* assessment is derived, from that store, only after the last batch.
\* (SpecMain)
C22_ForwardFlow ==
    LET analysed == DictKeys(batch.analysis_results)
        answered == DictKeys(batch.ai_results)
        diffed   == DictKeys(batch.change_results)
        assessed == DictKeys(batch.risk_assessments)
    IN  /\ answered \subseteq analysed
        /\ diffed \subseteq answered
        /\ assessed \subseteq diffed
        /\ analysed \subseteq DictKeys(batch.files_batch)
        /\ (batch.pc = "analysis") => answered = {}
        /\ (batch.pc \in {"analysis", "ai"}) => diffed = {}
        /\ (batch.pc \in {"analysis", "ai", "changes"}) => assessed = {}
        /\ (batch.pc \in {"done", "returned"}) =>
                assessed = (analysed \cap answered) \cap diffed
        /\ DictKeys(assessments) = DictKeys(threads.risk_assessments) \cup assessed
        /\ (threads.pc # "process_batch") =>
                /\ threads.batch_num = Len(threads.batches)
                /\ batch.pc = "returned"
        /\ (threads.pc \notin {"process_batch", "overall"}) =>
                threads.overall_risk = get_overall_assessment(assessments).val

\* A run of two batches ended, with a file assessed and the overall
\* assessment derived
C22_Witness ==
    /\ threads.pc = "exit"
    /\ Len(threads.batches) = 2
    /\ threads.batch_num = 2
    /\ Len(assessments) >= 1
    /\ threads.overall_risk = get_overall_assessment(assessments).val
    /\ threads.overall_risk.files_assessed = Len(threads.risk_assessments)

\* C25: when the batches of a run of main are through, the files assessed
\* are exactly the files whose AST was parsed at ingestion, whatever the
\* batch size, each with one entry in the store.  (SpecMain)
C25_BatchingIsTransparent ==
    (threads.pc # "process_batch") =>
        /\ DictKeys(threads.risk_assessments) = threads.parsed
        /\ DictKeys(assessments) = threads.parsed
        /\ Len(assessments) = Cardinality(threads.parsed)

\* C30: a run of main in which no file was assessed and whose report was
\* written ends with main returning, not with an exception.  (SpecMain)
C30_EmptyRunCompletes ==
    (/\ assessments = <<>>
     /\ threads.report_path # "None"
     /\ threads.pc \in {"exit", "raised"}) =>
        /\ threads.pc = "exit"
        /\ result = Return(0)
        /\ threads.overall_risk = None

\* An answer of generate_content that analyze_and_modify can use: a
\* response with a text that is not empty
Usable(r) == r.kind = "text" /\ r.text # None

\* C23: in every call of analyze_and_modify that reaches the model, the
\* model is called at most max_retries times; every attempt before the
\* latest raised, so the first answer that is returned ends the attempts;
\* the sleep after failed attempt k (from 0) is retry_delay * 2^k, and
\* there is one sleep between two attempts and none after the last; when
\* all max_retries attempts raise the call returns the fallback for the
\* source.  api_call_count grows by one in the step that returns a usable
\* answer, and in no other step.  (SpecOracle)
C23_RetryWithBackoff ==
    [][(threads'.pc \in {"waiting", "sleeping"} \/ threads.pc = "waiting") =>
        /\ threads'.attempt \in 1..ai_engine.max_retries
        /\ Len(threads'.log) =
                IF threads'.pc = "waiting" THEN threads'.attempt - 1 ELSE threads'.attempt
        /\ \A i \in 1..(Len(threads'.log) - 1) : threads'.log[i].kind = "raise"
        /\ (threads'.pc = "sleeping") =>
                /\ threads'.log[threads'.attempt].kind = "raise"
                /\ threads'.attempt < ai_engine.max_retries
        /\ Len(threads'.delays) = threads'.attempt - 1
        /\ \A k \in 0..(Len(threads'.delays) - 1) :
                threads'.delays[k + 1] =
                    ai_engine.retry_delay * (2 ^ k) * TicksPerSecond
        /\ IF threads'.pc = "returned"
           THEN LET last == threads'.log[Len(threads'.log)]
                IN  /\ ai_engine'.api_call_count =
                            ai_engine.api_call_count + (IF Usable(last) THEN 1 ELSE 0)
                    /\ result'.exc = "None"
                    /\ result'.val.fallback = ~Usable(last)
                    /\ result'.val.success = Usable(last)
                    /\ (last.kind = "raise") =>
                            /\ Len(threads'.log) = ai_engine.max_retries
                            /\ result'.val.modified_code = call.source_code
                            /\ result'.val.changes_made = <<>>
           ELSE /\ ai_engine'.api_call_count = ai_engine.api_call_count
                /\ result' = Pending
      ]_vars

\* A call that raised twice, slept twice and then got a usable answer, which
\* was counted
C23_Witness ==
    /\ call.op = "analyze_and_modify"
    /\ threads.pc = "returned"
    /\ Len(threads.delays) = 2
    /\ Len(threads.log) = 3
    /\ Usable(threads.log[3])
    /\ ai_engine.api_call_count >= 1
    /\ result.val.success

\* C24: the starts of two consecutive requests to the model are at least
\* rate_limit_delay apart, and an engine that is disabled or has no model
\* makes no request.  (SpecOracle)
C24_RateLimited ==
    /\ threads.clock.spacing >= Limit(ai_engine)
    /\ (~ai_engine.enabled \/ ai_engine.model = None) =>
            /\ threads.pc \in {"idle", "returned"}
            /\ threads.attempt = 0
            /\ threads.log = <<>>

\* The rank of an overall assessment: of its decision, and 0 for the empty
\* one
OverallRank(overall) ==
    IF overall = None THEN 0 ELSE GateRank(overall.overall_gate_decision)

\* C29: a call of assess_risk that returns for a filename not yet stored
\* makes files_assessed grow by exactly one and leaves the overall gate
\* decision as restrictive as it was or more; a call that raises leaves both
\* as they were; so the overall decision gets less restrictive only in a
\* call that assesses a stored filename again.  (Spec)
C29_OverallMonotone ==
    [][(call'.op = "assess_risk") =>
        \E before \in {get_overall_assessment(assessments).val},
           after \in {get_overall_assessment(assessments').val} :
            /\ (result'.exc = "None" /\ call'.filename \notin DictKeys(assessments)) =>
                    /\ after.files_assessed = Len(assessments) + 1
                    /\ OverallRank(after) >= OverallRank(before)
            /\ (result'.exc # "None") => after = before
            /\ (OverallRank(after) < OverallRank(before)) =>
                    /\ call'.filename \in DictKeys(assessments)
                    /\ after.files_assessed = Len(assessments)
      ]_vars

\* A file that passes was assessed after one that is blocked, and the
\* overall decision is still BLOCK
C29_Witness ==
    /\ call.op = "assess_risk"
    /\ result.exc = "None"
    /\ result.val.gate_decision = "PASS"
    /\ Len(assessments) = 2
    /\ assessments[2].key = call.filename
    /\ assessments[1].value.gate_decision = "BLOCK"
    /\ get_overall_assessment(assessments).val.overall_gate_decision = "BLOCK"

\* C28: under any thresholds written in the settings, the first
\* recommendation of an assessment is the advisory of its gate decision:
\* safe to proceed iff PASS, review recommended iff WARN, thorough review
\* required iff BLOCK.  (SpecCfg)
C28_AdvisoryAgreesWithGate ==
    (call.op = "assess_risk" /\ result.exc = "None") =>
        /\ (result.val.recommendations[1] = "Low risk changes - safe to proceed")
                <=> (result.val.gate_decision = "PASS")
        /\ (result.val.recommendations[1]
                = "Medium risk changes - additional review recommended")
                <=> (result.val.gate_decision = "WARN")
        /\ (result.val.recommendations[1]
                = "High risk changes - thorough review required before deployment")
                <=> (result.val.gate_decision = "BLOCK")

\* The decision the thresholds assign to a score given in hundredths
GateOfReported(risk_score) ==
    IF risk_score < 100 * RISK_GATES["PASS"] THEN "PASS"
    ELSE IF risk_score < 100 * RISK_GATES["WARN"] THEN "WARN"
    ELSE "BLOCK"

\* C26: the gate_decision of every stored assessment is the decision the
\* thresholds assign to its risk_score, the total rounded to two decimals:
\* PASS below 30, WARN from 30 and below 70, BLOCK from 70.  (SpecScore)
C26_GateOfReportedScore ==
    \A i \in DOMAIN assessments :
        assessments[i].value.gate_decision =
            GateOfReported(assessments[i].value.risk_score)

\* C27: a file whose oracle result is the fallback has a diff with
\* total_changes 0, and is assessed with change_volume_risk 0,
\* critical_function_risk 0, a risk_score of at most 50 and the decision
\* PASS or WARN; and when every oracle result of the batch is the fallback
\* the overall decision is not BLOCK.  (SpecPipe)
C27_FallbackNeverBlocks ==
    /\ \A i \in DOMAIN batch.ai_results :
        LET filename == batch.ai_results[i].key
        IN  batch.ai_results[i].value.fallback =>
                /\ (filename \in DictKeys(batch.change_results)) =>
                        DictGet(batch.change_results, filename).statistics.total_changes = 0
                /\ ~(batch.pc = "raised" /\ batch.at = filename)
                /\ (batch.pc = "done") => filename \in DictKeys(batch.risk_assessments)
                /\ (filename \in DictKeys(batch.risk_assessments)) =>
                        LET a == DictGet(batch.risk_assessments, filename)
                        IN  /\ a.risk_components.change_volume_risk = 0
                            /\ a.risk_components.critical_function_risk = 0
                            /\ a.risk_score <= 5000
                            /\ a.gate_decision \in {"PASS", "WARN"}
    /\ (/\ batch.pc = "done"
        /\ assessments # <<>>
        /\ \A i \in DOMAIN batch.ai_results : batch.ai_results[i].value.fallback) =>
            get_overall_assessment(assessments).val.overall_gate_decision # "BLOCK"

====
